---- MODULE Spec2Model ----
(***************************************************************************)
(* Model of the xrp State Machine Engine (src/src/xrpSMEngine.c/.h).       *)
(*                                                                         *)
(* One tSmInstance: the current state pointer, the active and the deferred *)
(* event queue (circular arrays with head, tail, count) and bInitFinished. *)
(* SmProcessEvents is modelled step by step: one step is one iteration of  *)
(* the do/while loop of _SmProcessActiveEvents or _SmProcessDeferredEvents *)
(* (dequeue, _SmProcessEvent, _SmDeferEvent), or one decision of the       *)
(* do/while loop of _SmEngine.                                             *)
(*                                                                         *)
(* The instance is a zero-initialised static object whose owner has set    *)
(* mQSize and mpQData of both queues; the state callbacks do not call the  *)
(* engine.  Every SmEnqueueEvent call passes a fresh payload handle, so a  *)
(* handle identifies one call.  The history variables inActive and         *)
(* inDeferred hold the events each queue is meant to hold, oldest first.   *)
(***************************************************************************)
EXTENDS Integers, Sequences, FiniteSets

\* ------------------------------------------------------------ bounds
ActiveQSize == 2      \* activeEvtQueue.mQSize, set by the owner
DeferredQSize == 2    \* deferredEvtQueue.mQSize, set by the owner
MaxEvents == 3        \* number of SmEnqueueEvent calls in a behaviour
HarnessQSize == 3     \* mQSize of the queue driven by the queue harness
MaxQueueOps == 7      \* number of enqueue calls of the queue harness

\* ------------------------------------------------------------ types
\* eStateAction
ACT_GUARD == "ACT_GUARD"
ACT_ENTER == "ACT_ENTER"
ACT_EXIT == "ACT_EXIT"
ACT_INTERNAL == "ACT_INTERNAL"

\* tStEventID values of the application, and the id of a zeroed array slot
EventIDs == {"X", "Z", "W"}
NoID == "none"

\* tStateInfo objects of the application, and the NULL pointer
States == {"A", "B", "C", "D"}
NULL == "NULL"

\* tStateEvent
tStateEvent(id, data) == [mID |-> id, mData |-> data]
ZeroEvent == tStateEvent(NoID, 0)

\* tStateGuard
tStateGuard(id, st) == [mID |-> id, mStInfo |-> st]

\* The application's state table: per state the next-state list (in order)
\* and the list of event ids the state allows to be deferred.
StateTable ==
  [ A |-> [ mpNextStates |-> << tStateGuard("X", "B"), tStateGuard("X", "C"),
                                tStateGuard("X", "A"), tStateGuard("W", "B") >>,
            mpDeferEvtIDs |-> << "Z" >> ],
    B |-> [ mpNextStates |-> << tStateGuard("Z", "D"), tStateGuard("W", "A"),
                                tStateGuard("X", "B") >>,
            mpDeferEvtIDs |-> << >> ],
    C |-> [ mpNextStates |-> << tStateGuard("W", "A") >>,
            mpDeferEvtIDs |-> << "Z", "X" >> ],
    D |-> [ mpNextStates |-> << tStateGuard("Z", "A"), tStateGuard("Z", "D"),
                                tStateGuard("W", "B") >>,
            mpDeferEvtIDs |-> << "X", "W" >> ] ]

mNextStCount(st) == Len(StateTable[st].mpNextStates)
mDeferEvtIDCount(st) == Len(StateTable[st].mpDeferEvtIDs)

\* tSmQueueEvt after the owner's static initialisation
tSmQueueEvt(size) ==
  [ mQHead |-> 0, mQTail |-> 0, mQCount |-> 0, mQSize |-> size,
    mpQData |-> [i \in 0 .. size - 1 |-> ZeroEvent] ]

\* ------------------------------------------------------------ state
VARIABLES
  pCurrState,        \* tSmInstance.pCurrState
  activeEvtQueue,    \* tSmInstance.activeEvtQueue
  deferredEvtQueue,  \* tSmInstance.deferredEvtQueue
  bInitFinished,     \* tSmInstance.bInitFinished
  pc,                \* position of the SmProcessEvents call in progress
  newEvent,          \* local of the pass: the event dequeued last
  bFoundEvent,       \* local of the pass: result of the last dequeue
  bConsumedEvent,    \* local of the pass: result of the last _SmProcessEvent
  consumedEventCount, \* local of the pass
  idx,               \* local of _SmProcessDeferredEvents
  maxLoopCount,      \* local of _SmProcessDeferredEvents
  bChangedStatesUsingActiveEvents,   \* local of _SmEngine
  bChangedStatesUsingDeferredEvents, \* local of _SmEngine
  calls,             \* state entry invocations made by the last step
  log,               \* log lines written by the last step (RDK build)
  guardResp,         \* what the state entries answered to ACT_GUARD in the last step
  lastOp,            \* history: the last step and its argument
  evtCount,          \* history: number of SmEnqueueEvent calls so far
  inActive,          \* history: events accepted by the active queue and not taken out
  inDeferred,        \* history: events deferred and not taken out
  discarded,         \* history: handles refused by SmEnqueueEvent or emptied by SmInit
  replayed,          \* history: handles dequeued by the deferred pass in progress
  thisCall           \* history: the SmProcessEvents call in progress

vars == << pCurrState, activeEvtQueue, deferredEvtQueue, bInitFinished, pc, newEvent, bFoundEvent, bConsumedEvent, consumedEventCount, idx,
           maxLoopCount, bChangedStatesUsingActiveEvents,
           bChangedStatesUsingDeferredEvents, calls, log, guardResp, lastOp, evtCount,
           inActive, inDeferred, discarded, replayed, thisCall >>

instance == << pCurrState, activeEvtQueue, deferredEvtQueue, bInitFinished >>
history == << evtCount, inActive, inDeferred, discarded >>
locals == << newEvent, bFoundEvent, bConsumedEvent, consumedEventCount, idx,
             maxLoopCount, bChangedStatesUsingActiveEvents,
             bChangedStatesUsingDeferredEvents >>

\* ------------------------------------------------------------ queue
_SmQFull(pEvQ) == pEvQ.mQCount = pEvQ.mQSize

\* _SmQEmpty answering TRUE while one event is left
_SmQEmpty_OneLeft(pEvQ) == pEvQ.mQCount <= 1

_SmQEmpty(pEvQ) == 0 = pEvQ.mQCount

\* _SmEnqueueEvent storing the event in front of the oldest one
_SmEnqueueEvent_Front(pEvQ, evtID, evtData) ==
  IF _SmQFull(pEvQ)
  THEN pEvQ
  ELSE [pEvQ EXCEPT !.mpQData[pEvQ.mQHead] = tStateEvent(evtID, evtData),
                    !.mQHead = IF pEvQ.mQHead = 0 THEN pEvQ.mQSize - 1 ELSE pEvQ.mQHead - 1,
                    !.mQCount = @ + 1]

\* _SmEnqueueEvent without the wrap of the tail
_SmEnqueueEvent_NoWrap(pEvQ, evtID, evtData) ==
  IF _SmQFull(pEvQ)
  THEN pEvQ
  ELSE [pEvQ EXCEPT !.mQTail = @ + 1,
                    !.mQCount = @ + 1,
                    !.mpQData = [i \in DOMAIN @ \cup {pEvQ.mQTail + 1} |->
                                   IF i = pEvQ.mQTail + 1
                                   THEN tStateEvent(evtID, evtData) ELSE @[i]]]

\* _SmEnqueueEvent without the test for a full queue
_SmEnqueueEvent_NoFullCheck(pEvQ, evtID, evtData) ==
  LET tail == IF pEvQ.mQTail + 1 = pEvQ.mQSize THEN 0 ELSE pEvQ.mQTail + 1
  IN  [pEvQ EXCEPT !.mQTail = tail,
                   !.mQCount = @ + 1,
                   !.mpQData[tail] = tStateEvent(evtID, evtData)]

\* _SmEnqueueEvent overwriting the oldest event of a full queue
_SmEnqueueEvent_DropOldest(pEvQ, evtID, evtData) ==
  LET tail == IF pEvQ.mQTail + 1 = pEvQ.mQSize THEN 0 ELSE pEvQ.mQTail + 1
      head == IF pEvQ.mQHead + 1 = pEvQ.mQSize THEN 0 ELSE pEvQ.mQHead + 1
  IN  IF _SmQFull(pEvQ)
      THEN [pEvQ EXCEPT !.mQTail = tail, !.mQHead = head,
                        !.mpQData[tail] = tStateEvent(evtID, evtData)]
      ELSE [pEvQ EXCEPT !.mQTail = tail,
                        !.mQCount = @ + 1,
                        !.mpQData[tail] = tStateEvent(evtID, evtData)]

\* The queue after _SmEnqueueEvent( pEvQ, evtID, evtData )
_SmEnqueueEvent(pEvQ, evtID, evtData) ==
  IF _SmQFull(pEvQ)
  THEN pEvQ
  ELSE LET tail == IF pEvQ.mQTail + 1 = pEvQ.mQSize THEN 0 ELSE pEvQ.mQTail + 1
       IN  [pEvQ EXCEPT !.mQTail = tail,
                        !.mQCount = @ + 1,
                        !.mpQData[tail] = tStateEvent(evtID, evtData)]

\* _SmDequeueEvent copying the event out before the head has moved
_SmDequeueEvent_StaleHead(pEvQ, old) ==
  IF _SmQEmpty(pEvQ)
  THEN [ret |-> FALSE, q |-> pEvQ, ev |-> old]
  ELSE LET head == IF pEvQ.mQHead + 1 = pEvQ.mQSize THEN 0 ELSE pEvQ.mQHead + 1
       IN  [ret |-> TRUE,
            q |-> [pEvQ EXCEPT !.mQHead = head, !.mQCount = @ - 1],
            ev |-> pEvQ.mpQData[pEvQ.mQHead]]

\* _SmDequeueEvent( pEvQ, pNewEvent ): the result, the queue afterwards and
\* *pNewEvent afterwards (old is the value it had before the call)
_SmDequeueEvent(pEvQ, old) ==
  IF _SmQEmpty(pEvQ)
  THEN [ret |-> FALSE, q |-> pEvQ, ev |-> old]
  ELSE LET head == IF pEvQ.mQHead + 1 = pEvQ.mQSize THEN 0 ELSE pEvQ.mQHead + 1
       IN  [ret |-> TRUE,
            q |-> [pEvQ EXCEPT !.mQHead = head, !.mQCount = @ - 1],
            ev |-> pEvQ.mpQData[head]]

\* _SmDequeueDeferredEvent handing out the oldest deferred event while
\* leaving it in the queue
_SmDequeueDeferredEvent_Peek(pEvQ, old) ==
  IF _SmQEmpty(pEvQ)
  THEN [ret |-> FALSE, q |-> pEvQ, ev |-> old]
  ELSE LET head == IF pEvQ.mQHead + 1 = pEvQ.mQSize THEN 0 ELSE pEvQ.mQHead + 1
       IN  [ret |-> TRUE, q |-> pEvQ, ev |-> pEvQ.mpQData[head]]

\* _SmDequeueDeferredEvent( pSM, pDefEvent ) on the deferred queue pEvQ of
\* the instance
_SmDequeueDeferredEvent(pEvQ, old) == _SmDequeueEvent(pEvQ, old)

\* The events a queue holds, oldest first
QContents(pEvQ) ==
  [k \in 1 .. pEvQ.mQCount |-> pEvQ.mpQData[(pEvQ.mQHead + k) % pEvQ.mQSize]]

\* The event the next _SmDequeueEvent returns (the zero event if there is none)
NextEvent(pEvQ) == _SmDequeueEvent(pEvQ, ZeroEvent).ev

\* ------------------------------------------------------------ log lines
LogLine(lvl, msg, e, n) == [lvl |-> lvl, msg |-> msg, e |-> e, n |-> n]

\* ------------------------------------------------------------ callbacks
\* One invocation of a state's entry point: mEntry of state st called with
\* action act and event evt while pCurrState was cur; resp is the value the
\* entry stored in *bGuardRespone (FALSE when the action is no ACT_GUARD).
Call(st, act, evt, cur, resp) ==
  [st |-> st, act |-> act, evt |-> evt, cur |-> cur, resp |-> resp]

\* What the entries of the states answer to ACT_GUARD while one event is
\* processed: any answer is possible, the entries are application code.
\* Only the states an edge of cur leads to with the id of the event are
\* asked; the answer of the others is left FALSE.
GuardResponses(cur, id) ==
  LET asked == IF cur = NULL THEN {}
               ELSE {StateTable[cur].mpNextStates[i].mStInfo :
                       i \in {k \in DOMAIN StateTable[cur].mpNextStates :
                                StateTable[cur].mpNextStates[k].mID = id}} \ {cur}
  IN  {[st \in States |-> st \in acc] : acc \in SUBSET asked}

\* No entry is asked
NoResponse == [st \in States |-> FALSE]

\* ------------------------------------------------------------ _SmProcessEvent
\* The for loop of _SmProcessEvent from index nextStateIdx on (1-based):
\* whether the event was used, the state afterwards, the entry invocations
\* and the log lines, in order.  g is what each entry answers to ACT_GUARD.
\* The for loop ending at the first edge with the id of the event, whatever
\* the guard answers
ScanNextStates_FirstMatchOnly(cur, pNewEvent, g, nextStateIdx) ==
  LET ms == {k \in nextStateIdx .. mNextStCount(cur) :
               StateTable[cur].mpNextStates[k].mID = pNewEvent.mID}
  IN
  IF ms = {}
  THEN [bEventUsed |-> FALSE, st |-> cur, calls |-> << >>, log |-> << >>]
  ELSE
    LET first == CHOOSE k \in ms : \A j \in ms : k <= j
        pNextStateInfo == StateTable[cur].mpNextStates[first].mStInfo
    IN
    IF cur = pNextStateInfo
    THEN [bEventUsed |-> TRUE, st |-> cur,
          calls |-> << Call(pNextStateInfo, ACT_INTERNAL, pNewEvent, cur, FALSE) >>,
          log |-> << LogLine("DEBUG", "internal", pNewEvent.mID, pNewEvent.mData) >>]
    ELSE IF g[pNextStateInfo]
    THEN [bEventUsed |-> TRUE, st |-> pNextStateInfo,
          calls |-> << Call(pNextStateInfo, ACT_GUARD, pNewEvent, cur, TRUE),
                       Call(cur, ACT_EXIT, pNewEvent, cur, FALSE),
                       Call(pNextStateInfo, ACT_ENTER, pNewEvent, pNextStateInfo, FALSE) >>,
          log |-> << LogLine("DEBUG", "exit", pNewEvent.mID, pNewEvent.mData),
                     LogLine("DEBUG", "enter", pNewEvent.mID, pNewEvent.mData) >>]
    ELSE [bEventUsed |-> FALSE, st |-> cur,
          calls |-> << Call(pNextStateInfo, ACT_GUARD, pNewEvent, cur, FALSE) >>,
          log |-> << LogLine("DEBUG", "event rejected by", pNewEvent.mID,
                             pNewEvent.mData) >>]

\* The for loop without the test for an edge to the current state: such an
\* edge is handled like any other (guard, exit, enter)
RECURSIVE ScanNextStates_SelfLoopGuarded(_, _, _, _)
ScanNextStates_SelfLoopGuarded(cur, pNewEvent, g, nextStateIdx) ==
  IF nextStateIdx > mNextStCount(cur)
  THEN [bEventUsed |-> FALSE, st |-> cur, calls |-> << >>, log |-> << >>]
  ELSE
    LET nextStateEventID == StateTable[cur].mpNextStates[nextStateIdx].mID
        pNextStateInfo == StateTable[cur].mpNextStates[nextStateIdx].mStInfo
    IN
    IF nextStateEventID /= pNewEvent.mID
    THEN ScanNextStates_SelfLoopGuarded(cur, pNewEvent, g, nextStateIdx + 1)
    ELSE IF g[pNextStateInfo] \/ cur = pNextStateInfo
    THEN [bEventUsed |-> TRUE, st |-> pNextStateInfo,
          calls |-> << Call(pNextStateInfo, ACT_GUARD, pNewEvent, cur, TRUE),
                       Call(cur, ACT_EXIT, pNewEvent, cur, FALSE),
                       Call(pNextStateInfo, ACT_ENTER, pNewEvent, pNextStateInfo, FALSE) >>,
          log |-> << LogLine("DEBUG", "exit", pNewEvent.mID, pNewEvent.mData),
                     LogLine("DEBUG", "enter", pNewEvent.mID, pNewEvent.mData) >>]
    ELSE LET rest == ScanNextStates_SelfLoopGuarded(cur, pNewEvent, g, nextStateIdx + 1)
         IN  [rest EXCEPT
                !.calls = << Call(pNextStateInfo, ACT_GUARD, pNewEvent, cur, FALSE) >> \o @,
                !.log = << LogLine("DEBUG", "event rejected by", pNewEvent.mID,
                                   pNewEvent.mData) >> \o @]

\* The for loop with pCurrState reassigned before ACT_EXIT is sent
RECURSIVE ScanNextStates_MoveBeforeExit(_, _, _, _)
ScanNextStates_MoveBeforeExit(cur, pNewEvent, g, nextStateIdx) ==
  IF nextStateIdx > mNextStCount(cur)
  THEN [bEventUsed |-> FALSE, st |-> cur, calls |-> << >>, log |-> << >>]
  ELSE
    LET nextStateEventID == StateTable[cur].mpNextStates[nextStateIdx].mID
        pNextStateInfo == StateTable[cur].mpNextStates[nextStateIdx].mStInfo
    IN
    IF nextStateEventID /= pNewEvent.mID
    THEN ScanNextStates_MoveBeforeExit(cur, pNewEvent, g, nextStateIdx + 1)
    ELSE IF cur = pNextStateInfo
    THEN [bEventUsed |-> TRUE, st |-> cur,
          calls |-> << Call(pNextStateInfo, ACT_INTERNAL, pNewEvent, cur, FALSE) >>,
          log |-> << LogLine("DEBUG", "internal", pNewEvent.mID, pNewEvent.mData) >>]
    ELSE IF g[pNextStateInfo]
    THEN [bEventUsed |-> TRUE, st |-> pNextStateInfo,
          calls |-> << Call(pNextStateInfo, ACT_GUARD, pNewEvent, cur, TRUE),
                       Call(cur, ACT_EXIT, pNewEvent, pNextStateInfo, FALSE),
                       Call(pNextStateInfo, ACT_ENTER, pNewEvent, pNextStateInfo, FALSE) >>,
          log |-> << LogLine("DEBUG", "exit", pNewEvent.mID, pNewEvent.mData),
                     LogLine("DEBUG", "enter", pNewEvent.mID, pNewEvent.mData) >>]
    ELSE LET rest == ScanNextStates_MoveBeforeExit(cur, pNewEvent, g, nextStateIdx + 1)
         IN  [rest EXCEPT
                !.calls = << Call(pNextStateInfo, ACT_GUARD, pNewEvent, cur, FALSE) >> \o @,
                !.log = << LogLine("DEBUG", "event rejected by", pNewEvent.mID,
                                   pNewEvent.mData) >> \o @]

\* The for loop without its break statements: the edges after the one that
\* used the event are tried as well
RECURSIVE ScanNextStates_NoBreak(_, _, _, _)
ScanNextStates_NoBreak(cur, pNewEvent, g, nextStateIdx) ==
  IF nextStateIdx > mNextStCount(cur)
  THEN [bEventUsed |-> FALSE, st |-> cur, calls |-> << >>, log |-> << >>]
  ELSE
    LET nextStateEventID == StateTable[cur].mpNextStates[nextStateIdx].mID
        pNextStateInfo == StateTable[cur].mpNextStates[nextStateIdx].mStInfo
        rest == ScanNextStates_NoBreak(cur, pNewEvent, g, nextStateIdx + 1)
    IN
    IF nextStateEventID /= pNewEvent.mID
    THEN rest
    ELSE IF cur = pNextStateInfo
    THEN [bEventUsed |-> TRUE, st |-> rest.st,
          calls |-> << Call(pNextStateInfo, ACT_INTERNAL, pNewEvent, cur, FALSE) >>
                    \o rest.calls,
          log |-> << LogLine("DEBUG", "internal", pNewEvent.mID, pNewEvent.mData) >>
                  \o rest.log]
    ELSE IF g[pNextStateInfo]
    THEN [bEventUsed |-> TRUE,
          st |-> IF rest.bEventUsed THEN rest.st ELSE pNextStateInfo,
          calls |-> << Call(pNextStateInfo, ACT_GUARD, pNewEvent, cur, TRUE),
                       Call(cur, ACT_EXIT, pNewEvent, cur, FALSE),
                       Call(pNextStateInfo, ACT_ENTER, pNewEvent, pNextStateInfo, FALSE) >>
                    \o rest.calls,
          log |-> << LogLine("DEBUG", "exit", pNewEvent.mID, pNewEvent.mData),
                     LogLine("DEBUG", "enter", pNewEvent.mID, pNewEvent.mData) >>
                  \o rest.log]
    ELSE [rest EXCEPT
            !.calls = << Call(pNextStateInfo, ACT_GUARD, pNewEvent, cur, FALSE) >> \o @,
            !.log = << LogLine("DEBUG", "event rejected by", pNewEvent.mID,
                               pNewEvent.mData) >> \o @]

RECURSIVE ScanNextStates(_, _, _, _)
ScanNextStates(cur, pNewEvent, g, nextStateIdx) ==
  IF nextStateIdx > mNextStCount(cur)
  THEN [bEventUsed |-> FALSE, st |-> cur, calls |-> << >>, log |-> << >>]
  ELSE
    LET nextStateEventID == StateTable[cur].mpNextStates[nextStateIdx].mID
        pNextStateInfo == StateTable[cur].mpNextStates[nextStateIdx].mStInfo
    IN
    IF nextStateEventID /= pNewEvent.mID
    THEN ScanNextStates(cur, pNewEvent, g, nextStateIdx + 1)
    ELSE IF cur = pNextStateInfo
    THEN [bEventUsed |-> TRUE, st |-> cur,
          calls |-> << Call(pNextStateInfo, ACT_INTERNAL, pNewEvent, cur, FALSE) >>,
          log |-> << LogLine("DEBUG", "internal", pNewEvent.mID, pNewEvent.mData) >>]
    ELSE IF g[pNextStateInfo]
    THEN [bEventUsed |-> TRUE, st |-> pNextStateInfo,
          calls |-> << Call(pNextStateInfo, ACT_GUARD, pNewEvent, cur, TRUE),
                       Call(cur, ACT_EXIT, pNewEvent, cur, FALSE),
                       Call(pNextStateInfo, ACT_ENTER, pNewEvent, pNextStateInfo, FALSE) >>,
          log |-> << LogLine("DEBUG", "exit", pNewEvent.mID, pNewEvent.mData),
                     LogLine("DEBUG", "enter", pNewEvent.mID, pNewEvent.mData) >>]
    ELSE LET rest == ScanNextStates(cur, pNewEvent, g, nextStateIdx + 1)
         IN  [rest EXCEPT
                !.calls = << Call(pNextStateInfo, ACT_GUARD, pNewEvent, cur, FALSE) >> \o @,
                !.log = << LogLine("DEBUG", "event rejected by", pNewEvent.mID,
                                   pNewEvent.mData) >> \o @]

\* _SmProcessEvent assigning pCurrState before the guard is asked: a rejected
\* event leaves the instance in the target of the last edge that was tried
_SmProcessEvent_MoveOnReject(cur, pNewEvent, g) ==
  LET r == ScanNextStates(cur, pNewEvent, g, 1)
      ms == {k \in 1 .. mNextStCount(cur) :
               StateTable[cur].mpNextStates[k].mID = pNewEvent.mID}
      last == CHOOSE k \in ms : \A j \in ms : j <= k
  IN  IF r.bEventUsed \/ ms = {}
      THEN r
      ELSE [r EXCEPT !.st = StateTable[cur].mpNextStates[last].mStInfo]

_SmProcessEvent(cur, pNewEvent, g) == ScanNextStates(cur, pNewEvent, g, 1)

\* ------------------------------------------------------------ _SmDeferEvent
\* _SmDeferEvent deferring whatever the state's deferred id list holds
bCanDefer_Always(cur, pNewEvent) == TRUE

\* The for loop of _SmDeferEvent: is the id in the state's deferred id list
bCanDefer(cur, pNewEvent) ==
  \E i \in 1 .. mDeferEvtIDCount(cur) : pNewEvent.mID = StateTable[cur].mpDeferEvtIDs[i]

\* _SmEnqueueDeferredEvent storing the event over the newest one when the
\* queue is full
_SmEnqueueDeferredEvent_Replace(q, evtID, evtData) ==
  LET q2 == IF _SmQFull(q)
            THEN [q EXCEPT !.mpQData[q.mQTail] = tStateEvent(evtID, evtData)]
            ELSE _SmEnqueueEvent(q, evtID, evtData)
  IN  [q |-> q2, log |-> << LogLine("DEBUG", "DefQueue", evtID, q2.mQCount) >>]

\* _SmEnqueueDeferredEvent: the deferred queue afterwards and the log line
_SmEnqueueDeferredEvent(q, evtID, evtData) ==
  LET q2 == _SmEnqueueEvent(q, evtID, evtData)
  IN  [q |-> q2, log |-> << LogLine("DEBUG", "DefQueue", evtID, q2.mQCount) >>]

\* _SmDeferEvent: the deferred queue afterwards and the log lines
_SmDeferEvent(cur, q, pNewEvent) ==
  IF bCanDefer(cur, pNewEvent)
  THEN _SmEnqueueDeferredEvent(q, pNewEvent.mID, pNewEvent.mData)
  ELSE [q |-> q,
        log |-> << LogLine("ERROR", "event unused", pNewEvent.mID, pNewEvent.mData),
                   LogLine("DEBUG", "state", NoID, 0) >>]

\* The loop body calling _SmDeferEvent for consumed events as well
ProcessOrDefer_DeferAlso(cur, defQ, ev, g, count, consumedLog) ==
  LET p == _SmProcessEvent(cur, ev, g)
      f == _SmDeferEvent(p.st, defQ, ev)
  IN  IF p.bEventUsed
      THEN [st |-> p.st, defQ |-> f.q, bConsumedEvent |-> TRUE, count |-> count + 1,
            calls |-> p.calls, log |-> p.log \o consumedLog]
      ELSE [st |-> p.st, defQ |-> f.q, bConsumedEvent |-> FALSE, count |-> count,
            calls |-> p.calls, log |-> p.log \o f.log]

\* The loop body counting an event only when it changed the current state
ProcessOrDefer_CountMoves(cur, defQ, ev, g, count, consumedLog) ==
  LET p == _SmProcessEvent(cur, ev, g)
      f == _SmDeferEvent(p.st, defQ, ev)
  IN  IF p.bEventUsed
      THEN [st |-> p.st, defQ |-> defQ, bConsumedEvent |-> TRUE,
            count |-> IF p.st /= cur THEN count + 1 ELSE count,
            calls |-> p.calls, log |-> p.log \o consumedLog]
      ELSE [st |-> p.st, defQ |-> f.q, bConsumedEvent |-> FALSE, count |-> count,
            calls |-> p.calls, log |-> p.log \o f.log]

\* Body of the do/while loops of _SmProcessActiveEvents and
\* _SmProcessDeferredEvents once an event was dequeued: _SmProcessEvent, then
\* the count or _SmDeferEvent
ProcessOrDefer(cur, defQ, ev, g, count, consumedLog) ==
  LET p == _SmProcessEvent(cur, ev, g)
      f == _SmDeferEvent(p.st, defQ, ev)
  IN  IF p.bEventUsed
      THEN [st |-> p.st, defQ |-> defQ, bConsumedEvent |-> TRUE, count |-> count + 1,
            calls |-> p.calls, log |-> p.log \o consumedLog]
      ELSE [st |-> p.st, defQ |-> f.q, bConsumedEvent |-> FALSE, count |-> count,
            calls |-> p.calls, log |-> p.log \o f.log]

\* ------------------------------------------------------------ history
\* A step and its argument
Op(name, arg) == [op |-> name, arg |-> arg]

\* The handles of a sequence of events
Handles(events) == {events[i].mData : i \in DOMAIN events}

\* The ids a state allows to be deferred
DeferrableIDs(st) ==
  {StateTable[st].mpDeferEvtIDs[i] : i \in DOMAIN StateTable[st].mpDeferEvtIDs}

\* A bounded FIFO of capacity size after e is offered
Offer(fifo, e, size) == IF Len(fifo) < size THEN Append(fifo, e) ELSE fifo

\* The deferred events after the oldest event of fifo was processed in
\* state st (the state after processing) with the deferred events rest
AfterProcessing(fifo, rest, consumed, st, size) ==
  IF fifo = << >> \/ consumed \/ Head(fifo).mID \notin DeferrableIDs(st)
  THEN rest
  ELSE Offer(rest, Head(fifo), size)

\* A FIFO without its oldest event
Rest(fifo) == IF fifo = << >> THEN fifo ELSE Tail(fifo)

\* No SmProcessEvents call is in progress
NoCall == [st |-> NULL, active |-> << >>, deferred |-> << >>, iter |-> 0, steps |-> << >>]

\* One event handed to _SmProcessEvent: in which iteration of the loop of
\* _SmEngine and in which pass, the current state before and after, and
\* whether the event was consumed
Step(iter, pass, evt, from, to, consumed) ==
  [iter |-> iter, pass |-> pass, evt |-> evt, from |-> from, to |-> to,
   consumed |-> consumed]

\* ------------------------------------------------------------ initial state
InitWith(activeQSize) ==
  /\ pCurrState = NULL
  /\ activeEvtQueue = tSmQueueEvt(activeQSize)
  /\ deferredEvtQueue = tSmQueueEvt(DeferredQSize)
  /\ bInitFinished = FALSE
  /\ pc = "idle"
  /\ newEvent = ZeroEvent
  /\ bFoundEvent = FALSE
  /\ bConsumedEvent = FALSE
  /\ consumedEventCount = 0
  /\ idx = 0
  /\ maxLoopCount = 0
  /\ bChangedStatesUsingActiveEvents = FALSE
  /\ bChangedStatesUsingDeferredEvents = FALSE
  /\ calls = << >>
  /\ log = << >>
  /\ guardResp = NoResponse
  /\ lastOp = Op("none", NULL)
  /\ evtCount = 0
  /\ inActive = << >>
  /\ inDeferred = << >>
  /\ discarded = [tossed |-> {}, overflow |-> {}, flushed |-> {}]
  /\ replayed = {}
  /\ thisCall = NoCall

Init == InitWith(ActiveQSize)

\* ------------------------------------------------------------ public operations
\* SmInit that leaves the deferred queue as it is
SmInitInstance_KeepDeferred(aq, dq, pInitialStateInfo) ==
  [ pCurrState |-> pInitialStateInfo,
    activeEvtQueue |-> [aq EXCEPT !.mQCount = 0, !.mQHead = 0, !.mQTail = 0],
    deferredEvtQueue |-> dq,
    bInitFinished |-> TRUE ]

\* The instance after SmInit( pSM, pInitialStateInfo )
SmInitInstance(aq, dq, pInitialStateInfo) ==
  [ pCurrState |-> pInitialStateInfo,
    activeEvtQueue |-> [aq EXCEPT !.mQCount = 0, !.mQHead = 0, !.mQTail = 0],
    deferredEvtQueue |-> [dq EXCEPT !.mQCount = 0, !.mQHead = 0, !.mQTail = 0],
    bInitFinished |-> TRUE ]

SmInit(pInitialStateInfo) ==
  LET i == SmInitInstance(activeEvtQueue, deferredEvtQueue, pInitialStateInfo)
  IN
  /\ pCurrState' = i.pCurrState
  /\ activeEvtQueue' = i.activeEvtQueue
  /\ deferredEvtQueue' = i.deferredEvtQueue
  /\ bInitFinished' = i.bInitFinished
  /\ calls' = << >>
  /\ log' = << LogLine("INFO", "Init", NoID, 0) >>
  /\ guardResp' = NoResponse
  /\ lastOp' = Op("SmInit", pInitialStateInfo)
  /\ inActive' = << >>
  /\ inDeferred' = << >>
  /\ discarded' = [discarded EXCEPT
                     !.flushed = @ \cup Handles(inActive) \cup Handles(inDeferred)]
  /\ UNCHANGED << pc, locals, evtCount, replayed, thisCall >>

\* SmInThisState answering TRUE for every state once a state was set
SmInThisState_AnyState(cur, pTestStateInfo) == cur /= NULL

\* SmInThisState: the value returned (nothing is changed)
SmInThisState(cur, pTestStateInfo) == cur = pTestStateInfo

\* A call of SmInThisState( pSM, pTestStateInfo ); the value returned is kept
\* in lastOp
SmInThisStateCall(pTestStateInfo) ==
  /\ lastOp' = Op("SmInThisState",
                  [pTestStateInfo |-> pTestStateInfo,
                   ret |-> SmInThisState(pCurrState, pTestStateInfo)])
  /\ calls' = << >>
  /\ log' = << >>
  /\ guardResp' = NoResponse
  /\ UNCHANGED << instance, pc, locals, history, replayed, thisCall >>

SmSetThisState(pNewStateInfo) ==
  /\ pCurrState' = pNewStateInfo
  /\ calls' = << >>
  /\ log' = << >>
  /\ guardResp' = NoResponse
  /\ lastOp' = Op("SmSetThisState", pNewStateInfo)
  /\ UNCHANGED << activeEvtQueue, deferredEvtQueue, bInitFinished, pc, locals,
                  history, replayed, thisCall >>

\* SmEnqueueEvent without the test of bInitFinished
SmEnqueueEventQueue_NoInitCheck(init, q, evtID, evtData) ==
  LET q2 == _SmEnqueueEvent(q, evtID, evtData)
  IN  [q |-> q2, log |-> << LogLine("DEBUG", "Enqueue", evtID, q2.mQCount) >>]

\* The active queue and the log lines after SmEnqueueEvent( pSM, evtID, evtData )
SmEnqueueEventQueue(init, q, evtID, evtData) ==
  IF ~init
  THEN [q |-> q,
        log |-> << LogLine("FATAL", "Enqueue: No init, tossing", evtID, q.mQCount) >>]
  ELSE LET q2 == _SmEnqueueEvent(q, evtID, evtData)
       IN  [q |-> q2, log |-> << LogLine("DEBUG", "Enqueue", evtID, q2.mQCount) >>]

\* SmEnqueueEvent with a fresh payload handle
SmEnqueueEvent(evtID) ==
  LET evtData == evtCount + 1
      r == SmEnqueueEventQueue(bInitFinished, activeEvtQueue, evtID, evtData)
  IN
  /\ evtCount < MaxEvents
  /\ activeEvtQueue' = r.q
  /\ log' = r.log
  /\ calls' = << >>
  /\ guardResp' = NoResponse
  /\ lastOp' = Op("SmEnqueueEvent", tStateEvent(evtID, evtData))
  /\ evtCount' = evtData
  /\ inActive' = IF bInitFinished
                 THEN Offer(inActive, tStateEvent(evtID, evtData), activeEvtQueue.mQSize)
                 ELSE inActive
  /\ discarded' = IF ~bInitFinished
                  THEN [discarded EXCEPT !.tossed = @ \cup {evtData}]
                  ELSE IF Len(inActive) = activeEvtQueue.mQSize
                  THEN [discarded EXCEPT !.overflow = @ \cup {evtData}]
                  ELSE discarded
  /\ UNCHANGED << pCurrState, deferredEvtQueue, bInitFinished, pc, locals,
                  inDeferred, replayed, thisCall >>

\* SmProcessEvents is called: _SmEngine enters its do/while loop and
\* _SmProcessActiveEvents starts
SmProcessEvents ==
  /\ pc = "idle"
  /\ pc' = "active"
  /\ bChangedStatesUsingDeferredEvents' = FALSE
  /\ consumedEventCount' = 0
  /\ calls' = << >>
  /\ log' = << >>
  /\ guardResp' = NoResponse
  /\ lastOp' = Op("SmProcessEvents", NULL)
  /\ thisCall' = [st |-> pCurrState, active |-> QContents(activeEvtQueue),
                  deferred |-> QContents(deferredEvtQueue), iter |-> 1,
                  steps |-> << >>]
  /\ UNCHANGED << instance, newEvent, bFoundEvent, bConsumedEvent, idx,
                  maxLoopCount, bChangedStatesUsingActiveEvents, history, replayed >>

\* ------------------------------------------------------------ _SmEngine
\* One iteration of the do/while loop of _SmProcessActiveEvents.  When the
\* queue is empty the loop ends and the function returns to _SmEngine.
ActiveStep(guardResp0) ==
  /\ pc = "active"
  /\ LET d == _SmDequeueEvent(activeEvtQueue, newEvent)
         r == ProcessOrDefer(pCurrState, deferredEvtQueue, d.ev, guardResp0,
                             consumedEventCount,
                             << LogLine("DEBUG", "consumed", d.ev.mID, d.q.mQCount) >>)
     IN
     /\ bFoundEvent' = d.ret
     /\ newEvent' = d.ev
     /\ activeEvtQueue' = d.q
     /\ IF d.ret
        THEN /\ pCurrState' = r.st
             /\ deferredEvtQueue' = r.defQ
             /\ bConsumedEvent' = r.bConsumedEvent
             /\ consumedEventCount' = r.count
             /\ calls' = r.calls
             /\ log' = << LogLine("DEBUG", "SmDequeue", d.ev.mID, d.q.mQCount) >> \o r.log
             /\ lastOp' = Op("ActiveStep", NULL)
             /\ inActive' = Rest(inActive)
             /\ inDeferred' = AfterProcessing(inActive, inDeferred, r.bConsumedEvent,
                                              r.st, deferredEvtQueue.mQSize)
             /\ thisCall' = [thisCall EXCEPT !.steps =
                               Append(@, Step(thisCall.iter, "active", d.ev, pCurrState,
                                              r.st, r.bConsumedEvent))]
             /\ UNCHANGED << pc, bChangedStatesUsingActiveEvents >>
        ELSE /\ pc' = "gate"
             /\ bChangedStatesUsingActiveEvents' = (consumedEventCount /= 0)
             /\ calls' = << >>
             /\ log' = << >>
             /\ lastOp' = Op("ActiveDone", NULL)
             /\ UNCHANGED << pCurrState, deferredEvtQueue, bConsumedEvent,
                             consumedEventCount, inActive, inDeferred, thisCall >>
     /\ guardResp' = IF d.ret THEN guardResp0 ELSE NoResponse
  /\ UNCHANGED << bInitFinished, idx, maxLoopCount,
                  bChangedStatesUsingDeferredEvents, evtCount, discarded, replayed >>

\* The if of _SmEngine never calling _SmProcessDeferredEvents
DeferredGateCondition_Never(bChanged, pEvQ) == FALSE

\* The if of _SmEngine looking at the deferred queue only
DeferredGateCondition_IgnoreActive(bChanged, pEvQ) == 0 /= pEvQ.mQCount

\* The condition of the if of _SmEngine after the active pass
DeferredGateCondition(bChanged, pEvQ) == bChanged /\ 0 /= pEvQ.mQCount

\* The if of _SmEngine after the active pass: either _SmProcessDeferredEvents
\* starts (it reads the count of the deferred queue), or the pass is skipped
DeferredGate ==
  /\ pc = "gate"
  /\ IF DeferredGateCondition(bChangedStatesUsingActiveEvents, deferredEvtQueue)
     THEN /\ pc' = "deferred"
          /\ maxLoopCount' = deferredEvtQueue.mQCount
          /\ idx' = 0
          /\ consumedEventCount' = 0
          /\ lastOp' = Op("DeferredStart", NULL)
     ELSE /\ pc' = "until"
          /\ lastOp' = Op("DeferredSkipped", NULL)
          /\ UNCHANGED << maxLoopCount, idx, consumedEventCount >>
  /\ calls' = << >>
  /\ log' = << >>
  /\ guardResp' = NoResponse
  /\ replayed' = {}
  /\ UNCHANGED << instance, newEvent, bFoundEvent, bConsumedEvent,
                  bChangedStatesUsingActiveEvents, bChangedStatesUsingDeferredEvents,
                  history, thisCall >>

\* The loop replaying one deferred event only
DeferredLoopCondition_OneEvent(found, i, max) == FALSE

\* The loop going on until the deferred queue is empty
DeferredLoopCondition_NoBound(found, i, max) == found

\* Whether the do/while loop of _SmProcessDeferredEvents goes on
DeferredLoopCondition(found, i, max) == found /\ i < max

\* One iteration of the do/while loop of _SmProcessDeferredEvents; when the
\* loop condition fails the function returns to _SmEngine.
DeferredStep(guardResp0) ==
  /\ pc = "deferred"
  /\ LET d == _SmDequeueDeferredEvent(deferredEvtQueue, newEvent)
         r == ProcessOrDefer(pCurrState, d.q, d.ev, guardResp0, consumedEventCount, << >>)
         i == IF d.ret THEN idx + 1 ELSE idx
         n == IF d.ret THEN r.count ELSE consumedEventCount
     IN
     /\ bFoundEvent' = d.ret
     /\ newEvent' = d.ev
     /\ idx' = i
     /\ consumedEventCount' = n
     /\ IF d.ret
        THEN /\ pCurrState' = r.st
             /\ deferredEvtQueue' = r.defQ
             /\ bConsumedEvent' = r.bConsumedEvent
             /\ calls' = r.calls
             /\ log' = << LogLine("DEBUG", "dq def event", d.ev.mID, d.q.mQCount) >> \o r.log
             /\ inDeferred' = AfterProcessing(inDeferred, Rest(inDeferred),
                                              r.bConsumedEvent, r.st,
                                              deferredEvtQueue.mQSize)
             /\ replayed' = replayed \cup {d.ev.mData}
             /\ thisCall' = [thisCall EXCEPT !.steps =
                               Append(@, Step(thisCall.iter, "deferred", d.ev,
                                              pCurrState, r.st, r.bConsumedEvent))]
        ELSE /\ calls' = << >>
             /\ log' = << >>
             /\ UNCHANGED << pCurrState, deferredEvtQueue, bConsumedEvent, inDeferred,
                             replayed, thisCall >>
     /\ IF DeferredLoopCondition(d.ret, i, maxLoopCount)
        THEN /\ lastOp' = Op("DeferredStep", NULL)
             /\ UNCHANGED << pc, bChangedStatesUsingDeferredEvents >>
        ELSE /\ pc' = "until"
             /\ bChangedStatesUsingDeferredEvents' = (n /= 0)
             /\ lastOp' = Op("DeferredLast", NULL)
     /\ guardResp' = IF d.ret THEN guardResp0 ELSE NoResponse
  /\ UNCHANGED << activeEvtQueue, bInitFinished, maxLoopCount,
                  bChangedStatesUsingActiveEvents, evtCount, inActive, discarded >>

\* The loop of _SmEngine going on when either pass consumed an event
EngineLoopCondition_AnyPass(bChangedActive, bChangedDeferred) ==
  bChangedActive \/ bChangedDeferred

\* The condition of the do/while loop of _SmEngine
EngineLoopCondition(bChangedActive, bChangedDeferred) == bChangedDeferred

\* The while of the do/while loop of _SmEngine: another iteration, or
\* _SmEngine and SmProcessEvents return
EngineUntil ==
  /\ pc = "until"
  /\ IF EngineLoopCondition(bChangedStatesUsingActiveEvents,
                            bChangedStatesUsingDeferredEvents)
     THEN /\ pc' = "active"
          /\ log' = << >>
          /\ lastOp' = Op("EngineRepeat", NULL)
          /\ thisCall' = [thisCall EXCEPT !.iter = @ + 1]
     ELSE /\ pc' = "idle"
          /\ log' = << LogLine("DEBUG", "exit", activeEvtQueue.mQCount,
                               deferredEvtQueue.mQCount) >>
          /\ lastOp' = Op("EngineReturn", NULL)
          /\ thisCall' = NoCall
  /\ bChangedStatesUsingDeferredEvents' = FALSE
  /\ bChangedStatesUsingActiveEvents' = FALSE
  /\ consumedEventCount' = 0
  /\ idx' = 0
  /\ maxLoopCount' = 0
  /\ newEvent' = ZeroEvent
  /\ bFoundEvent' = FALSE
  /\ bConsumedEvent' = FALSE
  /\ calls' = << >>
  /\ guardResp' = NoResponse
  /\ replayed' = {}
  /\ UNCHANGED << instance, history >>

\* ------------------------------------------------------------ specification
\* The owner calls the public operations one after the other; a call of
\* SmProcessEvents runs to its return before the next call.
Next ==
  \/ \E st \in States : pc = "idle" /\ SmInit(st)
  \/ \E st \in States : pc = "idle" /\ SmSetThisState(st)
  \/ \E id \in EventIDs : pc = "idle" /\ SmEnqueueEvent(id)
  \/ SmProcessEvents
  \/ \E g \in GuardResponses(pCurrState, NextEvent(activeEvtQueue).mID) :
       ActiveStep(g)
  \/ DeferredGate
  \/ \E g \in GuardResponses(pCurrState, NextEvent(deferredEvtQueue).mID) :
       DeferredStep(g)
  \/ EngineUntil

Spec == Init /\ [][Next]_vars

\* ------------------------------------------------------------ state query
\* The owner also asks for the current state between its other calls
NextQuery ==
  \/ Next
  \/ \E st \in States : pc = "idle" /\ SmInThisStateCall(st)

SpecQuery == Init /\ [][NextQuery]_vars

\* ------------------------------------------------------------ one call
\* The steps of a SmProcessEvents call in progress
EngineStep ==
  \/ \E g \in GuardResponses(pCurrState, NextEvent(activeEvtQueue).mID) :
       ActiveStep(g)
  \/ DeferredGate
  \/ \E g \in GuardResponses(pCurrState, NextEvent(deferredEvtQueue).mID) :
       DeferredStep(g)
  \/ EngineUntil

\* The sequences of at most n elements of S
SeqsUpTo(S, n) == UNION {[1 .. k -> S] : k \in 0 .. n}

\* The events with the ids of the sequence ids and the handles first + 1,
\* first + 2, ...
Events(ids, first) == [k \in DOMAIN ids |-> tStateEvent(ids[k], first + k)]

\* The queue after _SmEnqueueEvent was called for the events from index i on
RECURSIVE Fill(_, _, _)
Fill(pEvQ, events, i) ==
  IF i > Len(events)
  THEN pEvQ
  ELSE Fill(_SmEnqueueEvent(pEvQ, events[i].mID, events[i].mData), events, i + 1)

\* The queue after each of the events from index i on was enqueued and
\* dequeued again
RECURSIVE PassThrough(_, _, _)
PassThrough(pEvQ, events, i) ==
  IF i > Len(events)
  THEN pEvQ
  ELSE PassThrough(_SmDequeueEvent(_SmEnqueueEvent(pEvQ, events[i].mID,
                                                   events[i].mData), ZeroEvent).q,
                   events, i + 1)

\* SmProcessEvents has just been called on an initialised instance in any
\* state, with any events in the deferred queue (each went through the
\* active queue in an earlier call and was deferred by the state of that
\* time) and any events in the active queue (enqueued since).
InitCall ==
  \E st \in States, dIDs \in SeqsUpTo(EventIDs, DeferredQSize),
     aIDs \in SeqsUpTo(EventIDs, ActiveQSize) :
    LET d == Events(dIDs, 0)
        a == Events(aIDs, Len(dIDs))
    IN
    /\ pCurrState = st
    /\ activeEvtQueue = Fill(PassThrough(tSmQueueEvt(ActiveQSize), d, 1), a, 1)
    /\ deferredEvtQueue = Fill(tSmQueueEvt(DeferredQSize), d, 1)
    /\ bInitFinished = TRUE
    /\ pc = "active"
    /\ newEvent = ZeroEvent
    /\ bFoundEvent = FALSE
    /\ bConsumedEvent = FALSE
    /\ consumedEventCount = 0
    /\ idx = 0
    /\ maxLoopCount = 0
    /\ bChangedStatesUsingActiveEvents = FALSE
    /\ bChangedStatesUsingDeferredEvents = FALSE
    /\ calls = << >>
    /\ log = << >>
    /\ guardResp = NoResponse
    /\ lastOp = Op("SmProcessEvents", NULL)
    /\ evtCount = Len(d) + Len(a)
    /\ inActive = a
    /\ inDeferred = d
    /\ discarded = [tossed |-> {}, overflow |-> {}, flushed |-> {}]
    /\ replayed = {}
    /\ thisCall = [st |-> st, active |-> a, deferred |-> d, iter |-> 1, steps |-> << >>]

SpecCall == InitCall /\ [][EngineStep]_vars

\* The C code of _SmEngine runs on once it was called: nothing in it waits
SpecCallLive == SpecCall /\ WF_vars(EngineStep)

\* ------------------------------------------------------------ producer
\* A producer in another context calls SmEnqueueEvent while SmProcessEvents
\* runs; the owner serialises the calls, so an enqueue happens between two
\* steps of the engine (each step has one dequeue at most).
NextProducer ==
  \/ Next
  \/ \E id \in EventIDs : pc /= "idle" /\ SmEnqueueEvent(id)

SpecProducer == Init /\ [][NextProducer]_vars

\* ------------------------------------------------------------ fixed guards
\* An application whose guards are a fixed function of the target state and
\* the event: every entry answers TRUE to ACT_GUARD.
FixedGuard(st, id) == TRUE

\* What the entries asked while an event with this id is processed in cur
\* answer under FixedGuard
FixedResponse(cur, id) ==
  LET asked == UNION {{st \in States : g[st]} : g \in GuardResponses(cur, id)}
  IN  [st \in States |-> st \in asked /\ FixedGuard(st, id)]

NextFixed ==
  \/ \E st \in States : pc = "idle" /\ SmInit(st)
  \/ \E st \in States : pc = "idle" /\ SmSetThisState(st)
  \/ \E id \in EventIDs : pc = "idle" /\ SmEnqueueEvent(id)
  \/ SmProcessEvents
  \/ ActiveStep(FixedResponse(pCurrState, NextEvent(activeEvtQueue).mID))
  \/ DeferredGate
  \/ DeferredStep(FixedResponse(pCurrState, NextEvent(deferredEvtQueue).mID))
  \/ EngineUntil

SpecFixed == Init /\ [][NextFixed]_vars

\* ------------------------------------------------------------ queue harness
\* _SmEnqueueEvent and _SmDequeueEvent called in any order on one queue (the
\* active queue of an instance whose counts are zero), with fresh handles.
QueueEnqueue(evtID) ==
  LET evtData == evtCount + 1
  IN
  /\ evtCount < MaxQueueOps
  /\ activeEvtQueue' = _SmEnqueueEvent(activeEvtQueue, evtID, evtData)
  /\ lastOp' = Op("_SmEnqueueEvent", tStateEvent(evtID, evtData))
  /\ evtCount' = evtData
  /\ inActive' = Offer(inActive, tStateEvent(evtID, evtData), activeEvtQueue.mQSize)
  /\ discarded' = IF Len(inActive) = activeEvtQueue.mQSize
                  THEN [discarded EXCEPT !.overflow = @ \cup {evtData}]
                  ELSE discarded
  /\ UNCHANGED << pCurrState, deferredEvtQueue, bInitFinished, pc, locals, calls, log,
                  guardResp, inDeferred, replayed, thisCall >>

QueueDequeue ==
  LET d == _SmDequeueEvent(activeEvtQueue, newEvent)
  IN
  /\ bFoundEvent' = d.ret
  /\ newEvent' = d.ev
  /\ activeEvtQueue' = d.q
  /\ lastOp' = Op("_SmDequeueEvent", NULL)
  /\ inActive' = Rest(inActive)
  /\ UNCHANGED << pCurrState, deferredEvtQueue, bInitFinished, pc, bConsumedEvent,
                  consumedEventCount, idx, maxLoopCount,
                  bChangedStatesUsingActiveEvents, bChangedStatesUsingDeferredEvents,
                  calls, log, guardResp, evtCount, inDeferred, discarded, replayed,
                  thisCall >>

NextQueue ==
  \/ \E id \in EventIDs : QueueEnqueue(id)
  \/ QueueDequeue

SpecQueue == InitWith(HarnessQSize) /\ [][NextQueue]_vars

\* ------------------------------------------------------------ properties
\* C1: on one queue, whatever the order of _SmEnqueueEvent and
\* _SmDequeueEvent calls (head and tail wrapping included), the queue holds
\* the accepted events in the order they were enqueued and every dequeue
\* returns the oldest of them; a dequeue on an empty queue returns FALSE and
\* changes neither the queue nor *pNewEvent.
C1_FifoStep ==
  /\ QContents(activeEvtQueue') = inActive'
  /\ lastOp'.op = "_SmDequeueEvent" =>
       IF inActive = << >>
       THEN ~bFoundEvent' /\ activeEvtQueue' = activeEvtQueue /\ newEvent' = newEvent
       ELSE bFoundEvent' /\ newEvent' = Head(inActive)

C1_FifoOrder == [][C1_FifoStep]_vars

\* a dequeue returned an event after head and tail had wrapped
C1_Witness ==
  /\ lastOp.op = "_SmDequeueEvent"
  /\ bFoundEvent
  /\ activeEvtQueue.mQHead = 0
  /\ activeEvtQueue.mQCount > 0
  /\ evtCount > HarnessQSize

\* C2: in every state reached by SmInit, SmEnqueueEvent, SmProcessEvents and
\* SmSetThisState calls, both queues have 0 <= mQCount <= mQSize and mQHead,
\* mQTail in [0, mQSize).
QueueInRange(pEvQ) ==
  /\ pEvQ.mQCount \in 0 .. pEvQ.mQSize
  /\ pEvQ.mQHead \in 0 .. pEvQ.mQSize - 1
  /\ pEvQ.mQTail \in 0 .. pEvQ.mQSize - 1

C2_QueueBounds == QueueInRange(activeEvtQueue) /\ QueueInRange(deferredEvtQueue)

\* an enqueue overflowed, and later an event all guards rejected went unused
C2_Witness ==
  /\ discarded.overflow /= {}
  /\ lastOp.op = "ActiveStep"
  /\ ~bConsumedEvent
  /\ calls /= << >>
  /\ activeEvtQueue.mQTail = 0

\* C3: an enqueue on a full queue (mQCount = mQSize) changes nothing of the
\* queue: count, head, tail and the stored events stay, and the event offered
\* is not in the queue afterwards.  Both enqueues of the engine are covered:
\* SmEnqueueEvent on the active queue, _SmDeferEvent on the deferred queue.
C3_FullStep ==
  /\ ( /\ lastOp'.op = "SmEnqueueEvent"
       /\ bInitFinished
       /\ activeEvtQueue.mQCount = activeEvtQueue.mQSize )
     => /\ activeEvtQueue' = activeEvtQueue
        /\ lastOp'.arg \notin {QContents(activeEvtQueue')[i] :
                                 i \in DOMAIN QContents(activeEvtQueue')}
  /\ ( /\ lastOp'.op = "ActiveStep"
       /\ ~bConsumedEvent'
       /\ newEvent'.mID \in DeferrableIDs(pCurrState')
       /\ deferredEvtQueue.mQCount = deferredEvtQueue.mQSize )
     => /\ deferredEvtQueue' = deferredEvtQueue
        /\ newEvent' \notin {QContents(deferredEvtQueue')[i] :
                               i \in DOMAIN QContents(deferredEvtQueue')}

C3_FullEnqueueNoOp == [][C3_FullStep]_vars

\* SmEnqueueEvent was called with the active queue full
C3_Witness ==
  /\ lastOp.op = "SmEnqueueEvent"
  /\ lastOp.arg.mData \in discarded.overflow
  /\ activeEvtQueue.mQCount = activeEvtQueue.mQSize

\* The events a queue holds, as a set
Held(pEvQ) == {QContents(pEvQ)[i] : i \in DOMAIN QContents(pEvQ)}

\* The handles of the events the last step passed to a state entry
Delivered(c) == {c[i].evt.mData : i \in DOMAIN c}

\* C4: every SmEnqueueEvent on a full active queue reports the overflow: the
\* step writes a log line above debug level (the caller gets no result, the
\* function returns void).
C4_OverflowReported ==
  ( /\ lastOp.op = "SmEnqueueEvent"
    /\ bInitFinished
    /\ lastOp.arg \notin Held(activeEvtQueue) )
  => \E i \in DOMAIN log : log[i].lvl \in {"WARN", "ERROR", "FATAL"}

\* C5: SmEnqueueEvent before SmInit changes neither queue nor the current
\* state, and the event it was given is in no queue and is passed to no
\* state entry afterwards; after SmInit, SmEnqueueEvent on an active queue
\* that is not full appends the event.
C5_Step ==
  /\ (lastOp'.op = "SmEnqueueEvent" /\ ~bInitFinished)
     => /\ pCurrState' = pCurrState
        /\ activeEvtQueue' = activeEvtQueue
        /\ deferredEvtQueue' = deferredEvtQueue
        /\ ~bInitFinished'
  /\ Delivered(calls') \cap discarded'.tossed = {}
  /\ \A e \in Held(activeEvtQueue') \cup Held(deferredEvtQueue') :
       e.mData \notin discarded'.tossed
  /\ ( /\ lastOp'.op = "SmEnqueueEvent"
       /\ bInitFinished
       /\ activeEvtQueue.mQCount < activeEvtQueue.mQSize )
     => QContents(activeEvtQueue') = Append(QContents(activeEvtQueue), lastOp'.arg)

C5_EnqueueNeedsInit == [][C5_Step]_vars

\* an event was refused before SmInit, and a later event reached a state entry
C5_Witness ==
  /\ discarded.tossed /= {}
  /\ calls /= << >>
  /\ bInitFinished

\* C6: SmInit in any state of the instance sets the current state to the
\* given state, empties both queues (count, head and tail 0), sets
\* bInitFinished and calls no state entry; the events that were pending are
\* in no queue and are passed to no state entry afterwards.
C6_Step ==
  /\ lastOp'.op = "SmInit"
     => /\ pCurrState' = lastOp'.arg
        /\ \A q \in {activeEvtQueue', deferredEvtQueue'} :
             q.mQCount = 0 /\ q.mQHead = 0 /\ q.mQTail = 0
        /\ bInitFinished'
        /\ calls' = << >>
  /\ Delivered(calls') \cap discarded'.flushed = {}
  /\ \A e \in Held(activeEvtQueue') \cup Held(deferredEvtQueue') :
       e.mData \notin discarded'.flushed

C6_InitResets == [][C6_Step]_vars

\* SmInit was called with an active and a deferred event pending
C6_Witness ==
  /\ lastOp.op = "SmInit"
  /\ \E i \in DOMAIN activeEvtQueue.mpQData :
       activeEvtQueue.mpQData[i].mData \in discarded.flushed
  /\ \E i \in DOMAIN deferredEvtQueue.mpQData :
       deferredEvtQueue.mpQData[i].mData \in discarded.flushed

\* The targets of the edges of state st with trigger id, in the order of
\* the next-state list
Matching(st, id) ==
  LET edges == SelectSeq(StateTable[st].mpNextStates, LAMBDA e : e.mID = id)
  IN  [k \in DOMAIN edges |-> edges[k].mStInfo]

\* The number of invocations of the entry of state st with action act
NumCalls(c, st, act) == Cardinality({i \in DOMAIN c : c[i].st = st /\ c[i].act = act})

\* The steps in which an event was dequeued and processed
ProcessSteps == {"ActiveStep", "DeferredStep", "DeferredLast"}

\* C7: when the first edge of the current state A with the trigger of the
\* event leads to B, the second to C (both other states), B's guard rejects
\* and C's guard accepts, processing the event ends in C: A's entry gets
\* ACT_EXIT once, C's gets ACT_ENTER once, B's gets nothing but ACT_GUARD and
\* B is never the current state.
C7_Step ==
  (lastOp'.op \in ProcessSteps /\ bFoundEvent')
  => LET A == pCurrState
         m == Matching(A, newEvent'.mID)
     IN  ( /\ Len(m) >= 2
           /\ m[1] /= A
           /\ m[2] \notin {A, m[1]}
           /\ ~guardResp'[m[1]]
           /\ guardResp'[m[2]] )
         => /\ pCurrState' = m[2]
            /\ bConsumedEvent'
            /\ NumCalls(calls', A, ACT_EXIT) = 1
            /\ NumCalls(calls', m[2], ACT_ENTER) = 1
            /\ \A i \in DOMAIN calls' :
                 /\ calls'[i].evt = newEvent'
                 /\ calls'[i].cur /= m[1]
                 /\ calls'[i].st = m[1] => calls'[i].act = ACT_GUARD
                 /\ calls'[i].act = ACT_EXIT => calls'[i].st = A
                 /\ calls'[i].act = ACT_ENTER => calls'[i].st = m[2]

C7_GuardFallThrough == [][C7_Step]_vars

\* X was processed in A: B rejected it, C accepted it
C7_Witness ==
  /\ lastOp.op \in ProcessSteps
  /\ pCurrState = "C"
  /\ Len(calls) = 4
  /\ calls[1] = Call("B", ACT_GUARD, newEvent, "A", FALSE)
  /\ calls[4] = Call("C", ACT_ENTER, newEvent, "C", FALSE)

\* C8: when the scan reaches an edge with the trigger of the event whose
\* target is the current state (every earlier edge with that trigger leads to
\* another state whose guard rejects), the entry of the current state is
\* called once with ACT_INTERNAL and with no other action, no entry is called
\* with ACT_EXIT or ACT_ENTER, the current state stays, the event counts as
\* consumed and no entry is called after the ACT_INTERNAL call.
C8_Step ==
  (lastOp'.op \in ProcessSteps /\ bFoundEvent')
  => LET A == pCurrState
         m == Matching(A, newEvent'.mID)
     IN  \A k \in DOMAIN m :
           (m[k] = A /\ \A j \in 1 .. k - 1 : m[j] /= A /\ ~guardResp'[m[j]])
           => /\ pCurrState' = A
              /\ bConsumedEvent'
              /\ Len(calls') = k
              /\ calls'[k].st = A /\ calls'[k].act = ACT_INTERNAL
              /\ calls'[k].evt = newEvent' /\ calls'[k].cur = A
              /\ \A i \in 1 .. k - 1 :
                   calls'[i].act = ACT_GUARD /\ calls'[i].st /= A

C8_SelfLoopInternal == [][C8_Step]_vars

\* an edge to the current state was reached after a rejected guard
C8_Witness ==
  /\ lastOp.op \in ProcessSteps
  /\ Len(calls) >= 2
  /\ calls[Len(calls)].act = ACT_INTERNAL
  /\ calls[Len(calls)].st = pCurrState

\* The event processed in a step is left unconsumed: no edge of the state
\* has its trigger, or every such edge leads to another state whose guard
\* rejects
Unconsumed(st, id, g) ==
  \A k \in DOMAIN Matching(st, id) :
    Matching(st, id)[k] /= st /\ ~g[Matching(st, id)[k]]

\* The deferred queue's events once the step has dequeued its event
DeferredBefore ==
  IF lastOp'.op = "ActiveStep"
  THEN QContents(deferredEvtQueue)
  ELSE Tail(QContents(deferredEvtQueue))

\* C9 as stated: an unconsumed event is appended to the deferred queue, with
\* its id and payload, if and only if its id is in the deferrable list of the
\* current state; otherwise it is in neither queue.  The current state stays.
C9_OrigStep ==
  ( /\ lastOp'.op \in ProcessSteps
    /\ bFoundEvent'
    /\ Unconsumed(pCurrState, newEvent'.mID, guardResp') )
  => /\ pCurrState' = pCurrState
     /\ ~bConsumedEvent'
     /\ newEvent' \notin Held(activeEvtQueue')
     /\ IF newEvent'.mID \in DeferrableIDs(pCurrState)
        THEN QContents(deferredEvtQueue') = Append(DeferredBefore, newEvent')
        ELSE QContents(deferredEvtQueue') = DeferredBefore

C9_DeferIffDeferrable == [][C9_OrigStep]_vars

\* C9 amended: an unconsumed event is appended to the deferred queue, with
\* its id and payload, if and only if its id is in the deferrable list of the
\* current state and the deferred queue is not full; otherwise it is dropped,
\* the deferred queue keeps its events and the event is in neither queue.
\* The current state stays.
C9_Step ==
  ( /\ lastOp'.op \in ProcessSteps
    /\ bFoundEvent'
    /\ Unconsumed(pCurrState, newEvent'.mID, guardResp') )
  => /\ pCurrState' = pCurrState
     /\ ~bConsumedEvent'
     /\ newEvent' \notin Held(activeEvtQueue')
     /\ IF /\ newEvent'.mID \in DeferrableIDs(pCurrState)
           /\ Len(DeferredBefore) < deferredEvtQueue.mQSize
        THEN QContents(deferredEvtQueue') = Append(DeferredBefore, newEvent')
        ELSE /\ QContents(deferredEvtQueue') = DeferredBefore
             /\ newEvent' \notin Held(deferredEvtQueue')

C9_DeferIffDeferrableAndRoom == [][C9_Step]_vars

\* an event every guard rejected was deferred
C9_Witness ==
  /\ lastOp.op = "ActiveStep"
  /\ ~bConsumedEvent
  /\ calls /= << >>
  /\ deferredEvtQueue.mQCount > 0
  /\ QContents(deferredEvtQueue)[deferredEvtQueue.mQCount] = newEvent

\* C10: a deferred pass takes maxLoopCount, the count of the deferred queue
\* when it starts, and dequeues at most that many events; no handle is
\* dequeued twice in a pass, and the events deferred again during the pass
\* stay behind those the pass has not reached yet.
C10_Step ==
  /\ lastOp'.op = "DeferredStart"
     => /\ maxLoopCount' = deferredEvtQueue.mQCount
        /\ deferredEvtQueue' = deferredEvtQueue
        /\ idx' = 0
        /\ replayed' = {}
  /\ lastOp'.op \in {"DeferredStep", "DeferredLast"}
     => /\ bFoundEvent'
        /\ newEvent'.mData \notin replayed
        /\ replayed' = replayed \cup {newEvent'.mData}
        /\ maxLoopCount' = maxLoopCount
        /\ idx' = idx + 1
        /\ idx' <= maxLoopCount
        /\ Cardinality(replayed') = idx'
        /\ LET c == QContents(deferredEvtQueue')
           IN  /\ Len(c) >= maxLoopCount - idx'
               /\ \A k \in DOMAIN c :
                    (k <= maxLoopCount - idx') <=> (c[k].mData \notin replayed')
        /\ (lastOp'.op = "DeferredLast") <=> (idx' = maxLoopCount)

C10_BoundedReplay == [][C10_Step]_vars

\* a pass over two deferred events ended with an event deferred again
C10_Witness ==
  /\ lastOp.op = "DeferredLast"
  /\ maxLoopCount = 2
  /\ idx = 2
  /\ \E e \in Held(deferredEvtQueue) : e.mData \in replayed

\* C11: with guards that are a fixed function of state and event, when
\* SmProcessEvents returns after a deferred replay of the call changed the
\* current state, no event in the deferred queue has the trigger of an edge
\* of the current state that is a self-loop or whose guard accepts.
C11_Step ==
  ( /\ lastOp'.op = "EngineReturn"
    /\ \E i \in DOMAIN thisCall.steps :
         /\ thisCall.steps[i].pass = "deferred"
         /\ thisCall.steps[i].from /= thisCall.steps[i].to )
  => \A e \in Held(deferredEvtQueue') :
       \A k \in DOMAIN Matching(pCurrState', e.mID) :
         /\ Matching(pCurrState', e.mID)[k] /= pCurrState'
         /\ ~FixedGuard(Matching(pCurrState', e.mID)[k], e.mID)

C11_ConvergedAtReturn == [][C11_Step]_vars

\* C12: a SmProcessEvents call returns, whatever the guards answer and
\* whatever the two queues hold when it is called: the call hands at most
\* 2 * (active events at the call) + (deferred events at the call) events to
\* _SmProcessEvent, the loop of _SmEngine makes at most two iterations, and
\* every call in progress reaches its return.
C12_Step ==
  /\ Len(thisCall'.steps) <= 2 * Len(thisCall'.active) + Len(thisCall'.deferred)
  /\ thisCall'.iter <= 2

C12_Terminates ==
  /\ [][C12_Step]_vars
  /\ (pc /= "idle") ~> (pc = "idle")

\* a call that found both queues full has returned with the deferred
\* queue full again: every deferred event was deferred once more
C12_Witness ==
  /\ pc = "idle"
  /\ lastOp.op = "EngineReturn"
  /\ evtCount = ActiveQSize + DeferredQSize
  /\ deferredEvtQueue.mQCount = deferredEvtQueue.mQSize
  /\ activeEvtQueue.mQCount = 0

\* The ids of a sequence of events
IDs(events) == [k \in DOMAIN events |-> events[k].mID]

\* C13: A defers Z and has no edge for it, A has the edge W -> B, B has the
\* edge Z -> D, the guards accept.  A SmProcessEvents call that starts in A
\* with Z then W in the active queue and nothing deferred returns in D with
\* both queues empty, after exactly three events were processed: Z in the
\* active pass, left in A and deferred; W in the active pass, A -> B; Z in
\* the deferred pass of the same iteration, B -> D.
C13_Step ==
  ( /\ lastOp'.op = "EngineReturn"
    /\ thisCall.st = "A"
    /\ IDs(thisCall.active) = << "Z", "W" >>
    /\ thisCall.deferred = << >> )
  => /\ pCurrState' = "D"
     /\ activeEvtQueue'.mQCount = 0
     /\ deferredEvtQueue'.mQCount = 0
     /\ thisCall.steps =
          << Step(1, "active", thisCall.active[1], "A", "A", FALSE),
             Step(1, "active", thisCall.active[2], "A", "B", TRUE),
             Step(1, "deferred", thisCall.active[1], "B", "D", TRUE) >>

C13_ReplayInSameCall == [][C13_Step]_vars

\* SmInit(A), SmEnqueueEvent(Z), SmEnqueueEvent(W), and SmProcessEvents is
\* about to return in D
C13_Witness ==
  /\ pc = "until"
  /\ ~bChangedStatesUsingDeferredEvents
  /\ thisCall.st = "A"
  /\ thisCall.active = << tStateEvent("Z", 1), tStateEvent("W", 2) >>
  /\ thisCall.deferred = << >>
  /\ pCurrState = "D"
  /\ Len(thisCall.steps) = 3
  /\ thisCall.steps[3].pass = "deferred"

\* The number of events the call in progress took from the active queue
ActiveSteps(c) == Cardinality({i \in DOMAIN c.steps : c.steps[i].pass = "active"})

\* C14: of the events enqueued since the active queue (capacity N) was
\* empty, SmProcessEvents finds the first N in the queue, hands exactly
\* these to _SmProcessEvent in the order they were enqueued, and an event
\* enqueued on the full queue is never handed to a state entry and is in
\* neither queue.
C14_Step ==
  /\ lastOp'.op = "SmProcessEvents"
     => /\ thisCall'.active = inActive
        /\ Handles(inActive) \cap discarded.overflow = {}
  /\ (lastOp'.op = "ActiveStep" /\ bFoundEvent')
     => /\ ActiveSteps(thisCall) < Len(thisCall.active)
        /\ newEvent' = thisCall.active[ActiveSteps(thisCall) + 1]
  /\ lastOp'.op = "ActiveDone"
     => ActiveSteps(thisCall') = Len(thisCall'.active)
  /\ \A h \in discarded'.overflow :
       /\ h \notin Handles(QContents(activeEvtQueue'))
       /\ h \notin Handles(QContents(deferredEvtQueue'))
       /\ \A i \in DOMAIN calls' : calls'[i].evt.mData /= h
       /\ lastOp'.op \in ProcessSteps => newEvent'.mData /= h

C14_OverflowNeverSeen == [][C14_Step]_vars

\* N + 1 events were enqueued on the empty queue, and the active pass of the
\* call that followed has handed N events to _SmProcessEvent
C14_Witness ==
  /\ lastOp.op = "ActiveDone"
  /\ thisCall.iter = 1
  /\ Len(thisCall.active) = activeEvtQueue.mQSize
  /\ ActiveSteps(thisCall) = activeEvtQueue.mQSize
  /\ discarded.overflow = {thisCall.active[Len(thisCall.active)].mData + 1}

\* C15: the active pass ends only when the active queue is empty, and the
\* queue stays empty for the rest of the call: after the active pass and
\* when SmProcessEvents has returned mQCount of the active queue is 0.
C15_ActiveQueueDrained ==
  (pc \in {"gate", "deferred", "until"} \/ lastOp.op \in {"ActiveDone", "EngineReturn"})
  => /\ activeEvtQueue.mQCount = 0
     /\ inActive = << >>

\* a call that consumed one active event and left another unconsumed is
\* about to return
C15_Witness ==
  /\ pc = "until"
  /\ ~bChangedStatesUsingDeferredEvents
  /\ activeEvtQueue.mQCount = 0
  /\ Len(thisCall.active) = activeEvtQueue.mQSize
  /\ \E i, j \in DOMAIN thisCall.steps :
       /\ thisCall.steps[i].pass = "active" /\ thisCall.steps[i].consumed
       /\ thisCall.steps[j].pass = "active" /\ ~thisCall.steps[j].consumed

\* C16: SmSetThisState(s) makes s the current state, calls no state entry
\* and leaves both queues and bInitFinished as they are; SmInThisState(t)
\* returns TRUE exactly when t is the current state, and changes nothing of
\* the instance.
C16_Step ==
  /\ lastOp'.op = "SmSetThisState"
     => /\ pCurrState' = lastOp'.arg
        /\ calls' = << >>
        /\ activeEvtQueue' = activeEvtQueue
        /\ deferredEvtQueue' = deferredEvtQueue
        /\ bInitFinished' = bInitFinished
  /\ lastOp'.op = "SmInThisState"
     => /\ lastOp'.arg.ret <=> (lastOp'.arg.pTestStateInfo = pCurrState)
        /\ calls' = << >>
        /\ instance' = instance

C16_SetAndTestState == [][C16_Step]_vars

\* SmInThisState answered FALSE for a state other than the current one,
\* with events waiting in both queues
C16_Witness ==
  /\ lastOp.op = "SmInThisState"
  /\ ~lastOp.arg.ret
  /\ pCurrState \in States
  /\ activeEvtQueue.mQCount > 0
  /\ deferredEvtQueue.mQCount > 0

\* The edges of st with trigger id that use the event under the guard
\* answers g (self-loops, and edges whose target accepts), as indices of
\* Matching(st, id)
Using(st, id, g) ==
  {k \in DOMAIN Matching(st, id) : Matching(st, id)[k] = st \/ g[Matching(st, id)[k]]}

\* The least element of a non-empty set of numbers
Least(S) == CHOOSE k \in S : \A j \in S : k <= j

\* C17: when the first edge that uses the event leads to another state, the
\* entry calls of the step end with ACT_GUARD on the target (answered TRUE),
\* ACT_EXIT on the old state while it is still the current state, ACT_ENTER
\* on the target once it is the current state, all three with the event
\* processed; every ACT_EXIT and ACT_ENTER call is part of such a triple, and
\* the call after a rejected guard is neither ACT_EXIT nor ACT_ENTER.
C17_Step ==
  (lastOp'.op \in ProcessSteps /\ bFoundEvent')
  => LET old == pCurrState
         m == Matching(old, newEvent'.mID)
         u == Using(old, newEvent'.mID, guardResp')
         n == Len(calls')
     IN  /\ (u /= {} /\ m[Least(u)] /= old)
            => /\ n = Least(u) + 2
               /\ calls'[n - 2] = Call(m[Least(u)], ACT_GUARD, newEvent', old, TRUE)
               /\ calls'[n - 1] = Call(old, ACT_EXIT, newEvent', old, FALSE)
               /\ calls'[n] = Call(m[Least(u)], ACT_ENTER, newEvent', m[Least(u)], FALSE)
               /\ pCurrState' = m[Least(u)]
         /\ \A i \in DOMAIN calls' :
              /\ calls'[i].act = ACT_EXIT
                 => /\ i = n - 1 /\ i > 1
                    /\ calls'[i - 1].act = ACT_GUARD /\ calls'[i - 1].resp
                    /\ calls'[i].st = old /\ calls'[i].cur = old
              /\ calls'[i].act = ACT_ENTER
                 => /\ i = n /\ i > 2
                    /\ calls'[i - 1].act = ACT_EXIT
                    /\ calls'[i].st = calls'[i - 2].st
                    /\ calls'[i].cur = calls'[i].st
              /\ (calls'[i].act = ACT_GUARD /\ ~calls'[i].resp /\ i < n)
                 => calls'[i + 1].act \in {ACT_GUARD, ACT_INTERNAL}

C17_TransitionOrder == [][C17_Step]_vars

\* W took the machine from B to A in the deferred pass
C17_Witness ==
  /\ lastOp.op \in {"DeferredStep", "DeferredLast"}
  /\ pCurrState = "A"
  /\ calls = << Call("A", ACT_GUARD, newEvent, "B", TRUE),
                Call("B", ACT_EXIT, newEvent, "B", FALSE),
                Call("A", ACT_ENTER, newEvent, "A", FALSE) >>

\* C18: a processed event is used by at most one edge, the first one in the
\* next-state list of the state it was dequeued in that has its trigger and
\* is a self-loop or leads to a state whose guard accepts.  The entry calls
\* are the rejected guards of the edges with the trigger before that edge, in
\* order, then either one ACT_INTERNAL or one guard, exit, enter triple, and
\* nothing afterwards; an event with no edge of its trigger causes no call;
\* no edge of the new state is tried.
C18_Step ==
  (lastOp'.op \in ProcessSteps /\ bFoundEvent')
  => LET old == pCurrState
         m == Matching(old, newEvent'.mID)
         u == Using(old, newEvent'.mID, guardResp')
         k == IF u = {} THEN Len(m) + 1 ELSE Least(u)
         n == Len(calls')
     IN  /\ \A i \in 1 .. k - 1 :
              i <= n /\ calls'[i] = Call(m[i], ACT_GUARD, newEvent', old, FALSE)
         /\ u = {} => n = Len(m) /\ pCurrState' = old /\ ~bConsumedEvent'
         /\ (u /= {} /\ m[k] = old)
            => /\ n = k
               /\ calls'[k] = Call(old, ACT_INTERNAL, newEvent', old, FALSE)
               /\ pCurrState' = old
               /\ bConsumedEvent'
         /\ (u /= {} /\ m[k] /= old)
            => /\ n = k + 2
               /\ pCurrState' = m[k]
               /\ bConsumedEvent'
         /\ Cardinality({i \in DOMAIN calls' : calls'[i].act = ACT_EXIT}) <= 1
         /\ Cardinality({i \in DOMAIN calls' : calls'[i].act = ACT_ENTER}) <= 1
         /\ Cardinality({i \in DOMAIN calls' :
                           calls'[i].act \in {ACT_INTERNAL, ACT_EXIT}}) <= 1

C18_OneConsumption == [][C18_Step]_vars

\* Z took the machine from D to A although D has a later self-loop edge for
\* Z and A is entered with Z still being processed
C18_Witness ==
  /\ lastOp.op \in ProcessSteps
  /\ newEvent.mID = "Z"
  /\ pCurrState = "A"
  /\ Len(calls) = 3
  /\ calls[2] = Call("D", ACT_EXIT, newEvent, "D", FALSE)

\* The active pass of iteration iter of call c consumed an event
ActiveConsumed(c, iter) ==
  \E i \in DOMAIN c.steps :
    /\ c.steps[i].iter = iter
    /\ c.steps[i].pass = "active"
    /\ c.steps[i].consumed

\* C19: after the active pass of an iteration the deferred pass runs if and
\* only if that active pass consumed an event and the deferred queue is not
\* empty.  A call whose active passes consume nothing takes no event out of
\* the deferred queue: the events deferred before the call are still there
\* when it returns, in the same order, ahead of the events it deferred.
C19_Step ==
  /\ lastOp'.op \in {"DeferredStart", "DeferredSkipped"}
     => ( lastOp'.op = "DeferredStart"
          <=> ( /\ ActiveConsumed(thisCall, thisCall.iter)
                /\ deferredEvtQueue.mQCount /= 0 ) )
  /\ lastOp'.op \in {"DeferredStep", "DeferredLast"}
     => ActiveConsumed(thisCall, thisCall.iter)
  /\ (lastOp'.op = "EngineReturn" /\ ~ActiveConsumed(thisCall, 1))
     => /\ \A i \in DOMAIN thisCall.steps : thisCall.steps[i].pass = "active"
        /\ Len(QContents(deferredEvtQueue')) >= Len(thisCall.deferred)
        /\ SubSeq(QContents(deferredEvtQueue'), 1, Len(thisCall.deferred))
             = thisCall.deferred

C19_ReplayGate == [][C19_Step]_vars

\* the deferred pass was skipped in a call that consumed nothing, although
\* the current state has an edge for the oldest deferred event
C19_Witness ==
  /\ lastOp.op = "DeferredSkipped"
  /\ ~ActiveConsumed(thisCall, 1)
  /\ thisCall.deferred /= << >>
  /\ QContents(deferredEvtQueue) = thisCall.deferred
  /\ Matching(pCurrState, thisCall.deferred[1].mID) /= << >>

\* The deferred pass of iteration iter of call c consumed an event
DeferredConsumed(c, iter) ==
  \E i \in DOMAIN c.steps :
    /\ c.steps[i].iter = iter
    /\ c.steps[i].pass = "deferred"
    /\ c.steps[i].consumed

\* C20: at the end of an iteration of the loop of _SmEngine another
\* iteration starts (with an active pass) if and only if the deferred pass of
\* the iteration that ends consumed an event; otherwise SmProcessEvents
\* returns, whatever the active pass consumed.
C20_Step ==
  lastOp'.op \in {"EngineRepeat", "EngineReturn"}
  => /\ lastOp'.op = "EngineRepeat" <=> DeferredConsumed(thisCall, thisCall.iter)
     /\ lastOp'.op = "EngineRepeat"
        => pc' = "active" /\ thisCall'.iter = thisCall.iter + 1
     /\ lastOp'.op = "EngineReturn" => pc' = "idle"

C20_OuterLoop == [][C20_Step]_vars

\* a second iteration has started after a deferred pass that consumed one
\* event and deferred another again
C20_Witness ==
  /\ lastOp.op = "EngineRepeat"
  /\ pc = "active"
  /\ thisCall.iter = 2
  /\ DeferredConsumed(thisCall, 1)
  /\ \E i \in DOMAIN thisCall.steps :
       thisCall.steps[i].pass = "deferred" /\ ~thisCall.steps[i].consumed

\* C21: the active pass returns TRUE exactly when it consumed an event, and
\* so does the deferred pass; an event used by an edge to the current state
\* (ACT_INTERNAL, no state change) counts.  So after an active pass that
\* consumed such an event the deferred pass starts when the deferred queue
\* is not empty.
C21_Step ==
  /\ lastOp'.op = "ActiveDone"
     => ( bChangedStatesUsingActiveEvents'
          <=> ActiveConsumed(thisCall', thisCall'.iter) )
  /\ lastOp'.op = "DeferredLast"
     => ( bChangedStatesUsingDeferredEvents'
          <=> DeferredConsumed(thisCall', thisCall'.iter) )
  /\ ( /\ lastOp'.op \in ProcessSteps
       /\ bFoundEvent'
       /\ NumCalls(calls', pCurrState, ACT_INTERNAL) = 1 )
     => /\ bConsumedEvent'
        /\ thisCall'.steps[Len(thisCall'.steps)].consumed
        /\ pCurrState' = pCurrState
  /\ ( /\ lastOp'.op \in {"DeferredStart", "DeferredSkipped"}
       /\ deferredEvtQueue.mQCount /= 0
       /\ \E i \in DOMAIN thisCall.steps :
            /\ thisCall.steps[i].iter = thisCall.iter
            /\ thisCall.steps[i].pass = "active"
            /\ thisCall.steps[i].consumed
            /\ thisCall.steps[i].from = thisCall.steps[i].to )
     => lastOp'.op = "DeferredStart"

DroppedOnFullDeferred ==
  /\ lastOp.op = "ActiveStep"
  /\ bFoundEvent
  /\ ~bConsumedEvent
  /\ newEvent.mID \in DeferrableIDs(pCurrState)
  /\ _SmQFull(deferredEvtQueue)
  /\ newEvent \notin Held(deferredEvtQueue)

\* C22: when an event taken from the active queue is left unconsumed, its id
\* is in the deferrable list of the current state and the deferred queue is
\* full, the event is dropped: the deferred queue (events, order, count,
\* head, tail) is unchanged, the event is in neither queue, and the active
\* pass goes on with the next event of the active queue.
C22_Step ==
  /\ ( /\ lastOp'.op = "ActiveStep"
       /\ bFoundEvent'
       /\ Unconsumed(pCurrState, newEvent'.mID, guardResp')
       /\ newEvent'.mID \in DeferrableIDs(pCurrState)
       /\ _SmQFull(deferredEvtQueue) )
     => /\ deferredEvtQueue' = deferredEvtQueue
        /\ newEvent' \notin Held(deferredEvtQueue')
        /\ newEvent' \notin Held(activeEvtQueue')
        /\ QContents(activeEvtQueue') = Tail(QContents(activeEvtQueue))
        /\ pCurrState' = pCurrState
        /\ pc' = "active"
  /\ DroppedOnFullDeferred
     => /\ pc = "active"
        /\ IF activeEvtQueue.mQCount > 0
           THEN /\ lastOp'.op = "ActiveStep"
                /\ newEvent' = QContents(activeEvtQueue)[1]
           ELSE lastOp'.op = "ActiveDone"

C22_DeferOnFullDrops == [][C22_Step]_vars

\* the first active event of a call was dropped on the full deferred queue
\* and the second one has been processed
C22_Witness ==
  /\ lastOp.op = "ActiveStep"
  /\ Len(thisCall.deferred) = deferredEvtQueue.mQSize
  /\ Len(thisCall.steps) = 2
  /\ ~thisCall.steps[1].consumed
  /\ thisCall.steps[1].evt.mID \in DeferrableIDs(thisCall.steps[1].from)
  /\ thisCall.steps[1].evt \notin Held(deferredEvtQueue)
  /\ newEvent = thisCall.active[2]

\* The steps of _SmProcessDeferredEvents
ReplaySteps == {"DeferredStep", "DeferredLast"}

\* C23: inside a deferred replay pass the count of the deferred queue never
\* exceeds the count the pass started with (maxLoopCount), a replayed event
\* always finds room when it is deferred again, and so every replayed event
\* is either consumed, dropped because the current state does not allow its
\* id to be deferred, or back in the deferred queue as its newest event.
C23_Step ==
  /\ lastOp'.op = "DeferredStart"
     => maxLoopCount' = deferredEvtQueue'.mQCount
  /\ lastOp'.op \in ReplaySteps
     => /\ deferredEvtQueue'.mQCount <= maxLoopCount'
        /\ deferredEvtQueue'.mQCount <= deferredEvtQueue.mQCount
  /\ ( lastOp'.op \in ReplaySteps /\ bFoundEvent' )
     => /\ ~_SmQFull(_SmDequeueDeferredEvent(deferredEvtQueue, newEvent).q)
        /\ \/ bConsumedEvent'
           \/ /\ newEvent'.mID \notin DeferrableIDs(pCurrState')
              /\ newEvent' \notin Held(deferredEvtQueue')
           \/ /\ newEvent'.mID \in DeferrableIDs(pCurrState')
              /\ deferredEvtQueue'.mQCount = deferredEvtQueue.mQCount
              /\ QContents(deferredEvtQueue') =
                   Append(Tail(QContents(deferredEvtQueue)), newEvent')

C23_ReplayNeverOverflows == [][C23_Step]_vars

\* a replay pass that started on a full deferred queue has deferred an event
\* again, and the queue is full again
C23_Witness ==
  /\ lastOp.op \in ReplaySteps
  /\ bFoundEvent
  /\ ~bConsumedEvent
  /\ maxLoopCount = deferredEvtQueue.mQSize
  /\ _SmQFull(deferredEvtQueue)
  /\ newEvent = QContents(deferredEvtQueue)[deferredEvtQueue.mQCount]

\* The events of a sequence are in the order in which SmEnqueueEvent
\* accepted them (handles are given out in increasing order)
InArrivalOrder(events) ==
  \A i, j \in DOMAIN events : i < j => events[i].mData < events[j].mData

\* The events the replay pass of iteration iter of call c handed to
\* _SmProcessEvent, oldest first
ReplayedEvents(c, iter) ==
  LET s == SelectSeq(c.steps, LAMBDA x : x.iter = iter /\ x.pass = "deferred")
  IN  [k \in DOMAIN s |-> s[k].evt]

\* The events of that replay pass that were deferred again, oldest first
RedeferredEvents(c, iter) ==
  LET s == SelectSeq(c.steps, LAMBDA x : /\ x.iter = iter
                                         /\ x.pass = "deferred"
                                         /\ ~x.consumed
                                         /\ x.evt.mID \in DeferrableIDs(x.to))
  IN  [k \in DOMAIN s |-> s[k].evt]

\* C24: the deferred queue keeps the order of first deferral.  Events reach
\* the active queue, and so are first deferred, in the order of their
\* handles; outside a replay pass the deferred queue holds its events in
\* that order.  An event deferred from the active queue goes behind the
\* events already deferred and leaves them as they are.  A replay pass hands
\* out the deferred events oldest first and leaves behind exactly the ones
\* deferred again, in the same order; when all are deferred again the queue
\* holds the same sequence as before the pass.
C24_Step ==
  /\ pc' /= "deferred" => InArrivalOrder(QContents(deferredEvtQueue'))
  /\ ( lastOp'.op = "ActiveStep" /\ bFoundEvent' )
     => \/ QContents(deferredEvtQueue') = QContents(deferredEvtQueue)
        \/ QContents(deferredEvtQueue') = Append(QContents(deferredEvtQueue), newEvent')
  /\ lastOp'.op = "DeferredStart"
     => /\ QContents(deferredEvtQueue') = QContents(deferredEvtQueue)
        /\ InArrivalOrder(QContents(deferredEvtQueue'))
  /\ ( lastOp'.op \in ReplaySteps /\ bFoundEvent' )
     => /\ newEvent' = QContents(deferredEvtQueue)[1]
        /\ \/ QContents(deferredEvtQueue') = Tail(QContents(deferredEvtQueue))
           \/ QContents(deferredEvtQueue') =
                Append(Tail(QContents(deferredEvtQueue)), newEvent')
  /\ lastOp'.op = "DeferredLast"
     => /\ InArrivalOrder(ReplayedEvents(thisCall', thisCall'.iter))
        /\ Len(ReplayedEvents(thisCall', thisCall'.iter)) = maxLoopCount'
        /\ QContents(deferredEvtQueue') = RedeferredEvents(thisCall', thisCall'.iter)
        /\ deferredEvtQueue'.mQCount = maxLoopCount'
           => QContents(deferredEvtQueue') = ReplayedEvents(thisCall', thisCall'.iter)

C24_DeferredOrderStable == [][C24_Step]_vars

\* a replay pass has deferred both its events again and the deferred queue
\* holds them in the order it held them before
C24_Witness ==
  /\ lastOp.op = "DeferredLast"
  /\ Len(ReplayedEvents(thisCall, thisCall.iter)) = 2
  /\ QContents(deferredEvtQueue) = ReplayedEvents(thisCall, thisCall.iter)
  /\ QContents(deferredEvtQueue)[1].mData < QContents(deferredEvtQueue)[2].mData

\* The events call c found in the two queues when it was entered
Entered(c) ==
  {c.active[i] : i \in DOMAIN c.active} \cup {c.deferred[i] : i \in DOMAIN c.deferred}

\* The steps of call c that processed event e
StepsOf(c, e) == {i \in DOMAIN c.steps : c.steps[i].evt = e}

\* How often a queue holds event e
Copies(pEvQ, e) == Cardinality({k \in DOMAIN QContents(pEvQ) : QContents(pEvQ)[k] = e})

\* Event e was consumed in call c: once, by the last step that processed it
ConsumedOnce(c, e) ==
  /\ Cardinality({i \in StepsOf(c, e) : c.steps[i].consumed}) = 1
  /\ \E i \in StepsOf(c, e) : c.steps[i].consumed /\ \A j \in StepsOf(c, e) : j <= i

\* Event e was dropped in call c: the last step that processed it left it
\* unconsumed, and before that it was never consumed
DroppedIn(c, e, defQ) ==
  /\ StepsOf(c, e) /= {}
  /\ \A i \in StepsOf(c, e) : ~c.steps[i].consumed
  /\ Copies(defQ, e) = 0

\* In how many of the four conditions event e is
Conditions(c, e, actQ, defQ) ==
  (IF Copies(actQ, e) > 0 THEN 1 ELSE 0) + (IF Copies(defQ, e) > 0 THEN 1 ELSE 0)
  + (IF ConsumedOnce(c, e) THEN 1 ELSE 0) + (IF DroppedIn(c, e, defQ) THEN 1 ELSE 0)

\* C25: an accepted event is stored once, with its id and handle, behind the
\* events of the active queue.  At every point of a SmProcessEvents call each
\* event the call found in the queues is in exactly one condition: in the
\* active queue (once, not yet processed), in the deferred queue (once),
\* consumed (by exactly one step, the last that processed it), or dropped
\* (every step left it unconsumed and it is in no queue).  The queues hold
\* nothing else, no event is processed after it was consumed, and the
\* callbacks receive the id and handle of the processed event.
C25_Step ==
  /\ ( lastOp'.op = "SmEnqueueEvent" /\ bInitFinished /\ ~_SmQFull(activeEvtQueue) )
     => QContents(activeEvtQueue') = Append(QContents(activeEvtQueue), lastOp'.arg)
  /\ lastOp'.op = "SmProcessEvents"
     => /\ UNCHANGED << activeEvtQueue, deferredEvtQueue >>
        /\ \A e \in Entered(thisCall') :
             Copies(activeEvtQueue', e) + Copies(deferredEvtQueue', e) = 1
  /\ lastOp'.op = "EngineReturn" => UNCHANGED << activeEvtQueue, deferredEvtQueue >>
  /\ thisCall' /= NoCall
     => /\ Held(activeEvtQueue') \cup Held(deferredEvtQueue') \subseteq Entered(thisCall')
        /\ \A e \in Entered(thisCall') :
             /\ Conditions(thisCall', e, activeEvtQueue', deferredEvtQueue') = 1
             /\ Copies(activeEvtQueue', e) <= 1
             /\ Copies(deferredEvtQueue', e) <= 1
             /\ Copies(activeEvtQueue', e) = 1 => StepsOf(thisCall', e) = {}
             /\ Cardinality({i \in StepsOf(thisCall', e) : thisCall'.steps[i].consumed}) <= 1
             /\ \A i, j \in StepsOf(thisCall', e) :
                  thisCall'.steps[i].consumed => j <= i
        /\ \A i \in DOMAIN thisCall'.steps : thisCall'.steps[i].evt \in Entered(thisCall')
  /\ ( lastOp'.op \in ProcessSteps /\ bFoundEvent' )
     => /\ newEvent' \in Entered(thisCall')
        /\ \A k \in DOMAIN calls' : calls'[k].evt = newEvent'

C25_EventConservation == [][C25_Step]_vars

\* at the end of a call one event was consumed, one was dropped and one is
\* in the deferred queue
C25_Witness ==
  /\ pc = "until"
  /\ \E e1, e2, e3 \in Entered(thisCall) :
       /\ ConsumedOnce(thisCall, e1)
       /\ DroppedIn(thisCall, e2, deferredEvtQueue)
       /\ Copies(deferredEvtQueue, e3) = 1
       /\ StepsOf(thisCall, e3) /= {}

\* Some edge of state from with trigger id leads to state to
Edge(from, id, to) ==
  \E k \in DOMAIN StateTable[from].mpNextStates :
    /\ StateTable[from].mpNextStates[k].mID = id
    /\ StateTable[from].mpNextStates[k].mStInfo = to

\* The steps of call c form a path through the state table from the state
\* at call entry to state st: each step starts where the one before ended,
\* and a step that moves follows an edge with the id of its event
PathFromEntry(c, st) ==
  /\ \A i \in DOMAIN c.steps :
       /\ c.steps[i].from = (IF i = 1 THEN c.st ELSE c.steps[i - 1].to)
       /\ c.steps[i].to /= c.steps[i].from
          => /\ c.steps[i].consumed
             /\ Edge(c.steps[i].from, c.steps[i].evt.mID, c.steps[i].to)
  /\ st = (IF c.steps = << >> THEN c.st ELSE c.steps[Len(c.steps)].to)

\* C26: pCurrState changes only in SmInit and SmSetThisState, which set it
\* to their argument, and in a step of SmProcessEvents that processes an
\* event whose id is the trigger of an edge from the old state to the new
\* one, the guard of the new state having accepted.  During a call the
\* current state is the end of a path of such edges from the state at call
\* entry.  SmEnqueueEvent leaves the current state alone.
C26_Step ==
  /\ pCurrState' /= pCurrState
     => \/ lastOp'.op \in {"SmInit", "SmSetThisState"} /\ pCurrState' = lastOp'.arg
        \/ /\ lastOp'.op \in ProcessSteps
           /\ bFoundEvent'
           /\ bConsumedEvent'
           /\ Edge(pCurrState, newEvent'.mID, pCurrState')
           /\ guardResp'[pCurrState']
  /\ lastOp'.op \in {"SmInit", "SmSetThisState"} => pCurrState' = lastOp'.arg
  /\ lastOp'.op = "SmEnqueueEvent" => pCurrState' = pCurrState
  /\ lastOp'.op \in {"SmProcessEvents", "ActiveDone", "DeferredStart", "DeferredSkipped",
                     "EngineRepeat", "EngineReturn"}
     => pCurrState' = pCurrState
  /\ thisCall' /= NoCall => PathFromEntry(thisCall', pCurrState')

C26_StateChanges == [][C26_Step]_vars

\* a call has moved the current state twice and is in a state other than
\* the one it was entered in
C26_Witness ==
  /\ thisCall /= NoCall
  /\ pCurrState /= thisCall.st
  /\ Cardinality({i \in DOMAIN thisCall.steps :
                    thisCall.steps[i].from /= thisCall.steps[i].to}) = 2
  /\ PathFromEntry(thisCall, pCurrState)

\* The events the active passes of call c handed to _SmProcessEvent, in
\* the order of processing
ProcessedActive(c) ==
  LET s == SelectSeq(c.steps, LAMBDA x : x.pass = "active")
  IN  [k \in DOMAIN s |-> s[k].evt]

\* SmEnqueueEvent has stored its event while SmProcessEvents was running
EnqueuedInCall ==
  /\ lastOp'.op = "SmEnqueueEvent"
  /\ pc /= "idle"
  /\ bInitFinished
  /\ ~_SmQFull(activeEvtQueue)

\* What the claim says of every interleaving apart from the fate of late
\* events: the queues stay in range; an enqueue during a call appends its
\* event to the active queue and changes nothing else of the instance or of
\* the engine's position; the active pass takes the oldest event and ends
\* only on an empty queue; the events processed by the active passes of the
\* call followed by the events still queued are in arrival order and start
\* with the events the call found; outside the active pass nothing leaves
\* the active queue.
C27_Interleaved ==
  /\ QueueInRange(activeEvtQueue') /\ QueueInRange(deferredEvtQueue')
  /\ EnqueuedInCall
     => /\ QContents(activeEvtQueue') = Append(QContents(activeEvtQueue), lastOp'.arg)
        /\ UNCHANGED << pCurrState, deferredEvtQueue, bInitFinished, pc, locals, thisCall >>
  /\ ( lastOp'.op = "ActiveStep" /\ pc = "active" )
     => /\ newEvent' = QContents(activeEvtQueue)[1]
        /\ QContents(activeEvtQueue') = Tail(QContents(activeEvtQueue))
        /\ thisCall'.steps[Len(thisCall'.steps)].evt = newEvent'
        /\ thisCall'.steps[Len(thisCall'.steps)].pass = "active"
  /\ lastOp'.op = "ActiveDone" => QContents(activeEvtQueue) = << >>
  /\ pc \in {"gate", "deferred", "until"}
     => \/ QContents(activeEvtQueue') = QContents(activeEvtQueue)
        \/ QContents(activeEvtQueue') = Append(QContents(activeEvtQueue), lastOp'.arg)
  /\ thisCall' /= NoCall
     => LET all == ProcessedActive(thisCall') \o QContents(activeEvtQueue')
        IN  /\ InArrivalOrder(all)
            /\ Len(all) >= Len(thisCall'.active)
            /\ \A k \in DOMAIN thisCall'.active : all[k] = thisCall'.active[k]

\* C27 as stated: in every interleaving the above holds, and an event
\* enqueued after the active pass has seen the empty queue is not processed
\* in this call (at return the active passes after the first one have
\* processed nothing).
C27_OrigStep ==
  /\ C27_Interleaved
  /\ lastOp'.op = "EngineReturn"
     => \A i \in DOMAIN thisCall.steps :
          thisCall.steps[i].pass = "active" => thisCall.steps[i].iter = 1

C27_LateEventsWait == [][C27_OrigStep]_vars

\* C27 (amended): in every interleaving the above holds, and an event
\* enqueued after an active pass has seen the empty queue stays in the active
\* queue until the call returns unless the loop of _SmEngine repeats: it is
\* then processed by the active pass of a later iteration, which only runs
\* after a deferred replay that consumed an event.
C27_Step ==
  /\ C27_Interleaved
  /\ ( lastOp'.op = "ActiveStep" /\ pc = "active" /\ thisCall.iter > 1 )
     => DeferredConsumed(thisCall, thisCall.iter - 1)
  /\ lastOp'.op = "EngineReturn"
     => /\ UNCHANGED activeEvtQueue
        /\ \A i \in DOMAIN thisCall.steps :
             ( thisCall.steps[i].pass = "active" /\ thisCall.steps[i].iter > 1 )
             => DeferredConsumed(thisCall, thisCall.steps[i].iter - 1)

C27_ProducerInterleaving == [][C27_Step]_vars

\* an event was enqueued while the deferred replay of the first iteration
\* was running, the replay consumed an event, and the active pass of the
\* second iteration has processed the late event
C27_Witness ==
  /\ pc = "until"
  /\ thisCall.iter = 2
  /\ DeferredConsumed(thisCall, 1)
  /\ \E i \in DOMAIN thisCall.steps :
       /\ thisCall.steps[i].pass = "active"
       /\ thisCall.steps[i].iter = 2
       /\ \A k \in DOMAIN thisCall.active : thisCall.active[k] /= thisCall.steps[i].evt
  /\ activeEvtQueue.mQCount = 0

====
